---------------------------- MODULE Spec2Model ----------------------------
(***************************************************************************)
(* A model of the chat adapters of rag/llm/chat_model.py: the classes      *)
(* Base and LiteLLMBase, their retry loop (_exceptions), their bounded     *)
(* tool-calling loop and their streaming generators.                       *)
(*                                                                         *)
(* One top-level call is modelled from its entry to its end.  The provider *)
(* and the tool are the environment: every request and every tool call     *)
(* picks its outcome nondeterministically from a small set.                *)
(*                                                                         *)
(* Strings are sequences of string tokens ("**ERROR**", ": ", a code ...), *)
(* so that "starts with the marker" is a fact about the value built by the *)
(* code.  Messages are records [role, content, id].                        *)
(*                                                                         *)
(* Modelled after bind_tools (self.tools non-empty) and for a model name   *)
(* that is neither a "qwq" nor a "gpt-5" model.                            *)
(***************************************************************************)
EXTENDS Naturals, Sequences, FiniteSets

(***************************************************************************)
(* Bounds of the model: max_retries and max_rounds are drawn from          *)
(* 0..MaxRetries and 0..MaxRounds.                                         *)
(***************************************************************************)
MaxRetries == 1
MaxRounds == 1

\* Error codes (LLMErrorCode) and the fixed marker.
ERROR_RATE_LIMIT == "RATE_LIMIT_EXCEEDED"
ERROR_AUTHENTICATION == "AUTH_ERROR"
ERROR_INVALID_REQUEST == "INVALID_REQUEST"
ERROR_SERVER == "SERVER_ERROR"
ERROR_TIMEOUT == "TIMEOUT"
ERROR_CONNECTION == "CONNECTION_ERROR"
ERROR_MODEL == "MODEL_ERROR"
ERROR_CONTENT_FILTER == "CONTENT_FILTERED"
ERROR_QUOTA == "QUOTA_EXCEEDED"
ERROR_MAX_RETRIES == "MAX_RETRIES_EXCEEDED"
ERROR_GENERIC == "GENERIC_ERROR"
ERROR_PREFIX == "**ERROR**"

(***************************************************************************)
(* _classify_error: an error text is modelled by the set of keywords that *)
(* occur in its lower-cased form; the groups are tried in declaration      *)
(* order and the first group with a keyword in the text gives the code.    *)
(***************************************************************************)
keywords_mapping ==
    << [words |-> {"quota", "capacity", "credit", "billing", "balance"}, code |-> ERROR_QUOTA],
       [words |-> {"rate limit", "429", "tpm limit", "too many requests", "requests per minute"}, code |-> ERROR_RATE_LIMIT],
       [words |-> {"auth", "key", "apikey", "401", "forbidden", "permission"}, code |-> ERROR_AUTHENTICATION],
       [words |-> {"invalid", "bad request", "400", "format", "malformed", "parameter"}, code |-> ERROR_INVALID_REQUEST],
       [words |-> {"server", "503", "502", "504", "500", "unavailable"}, code |-> ERROR_SERVER],
       [words |-> {"timeout", "timed out"}, code |-> ERROR_TIMEOUT],
       [words |-> {"connect", "network", "unreachable", "dns"}, code |-> ERROR_CONNECTION],
       [words |-> {"filter", "content", "policy", "blocked", "safety", "inappropriate"}, code |-> ERROR_CONTENT_FILTER],
       [words |-> {"model", "not found", "does not exist", "not available"}, code |-> ERROR_MODEL],
       [words |-> {"max rounds"}, code |-> ERROR_MODEL] >>

RECURSIVE ClassifyFrom(_, _)
ClassifyFrom(i, words) ==
    IF i > Len(keywords_mapping) THEN ERROR_GENERIC
    ELSE IF keywords_mapping[i].words \cap words # {} THEN keywords_mapping[i].code
    ELSE ClassifyFrom(i + 1, words)

classify_error(e) == ClassifyFrom(1, e.words)

retryable_errors == {ERROR_RATE_LIMIT, ERROR_SERVER}

\* should_retry with TIMEOUT and AUTH_ERROR retried as well.
ShouldRetryAlsoTimeout(error_code) ==
    error_code \in retryable_errors \cup {ERROR_TIMEOUT, ERROR_AUTHENTICATION}

should_retry(error_code) == error_code \in retryable_errors

\* ErrorCodeAt without the override of the last attempt.
ErrorCodeNoOverride(e, att, maxr) == classify_error(e)

\* _exceptions, lines 296-298: the code the handler works with.
ErrorCodeAt(e, att, maxr) ==
    IF att = maxr THEN ERROR_MAX_RETRIES ELSE classify_error(e)

\* _exceptions, line 306: the formatted error string.
ErrorString(code, e) == <<ERROR_PREFIX, ": ", code, " - ", e.name>>

\* chat_streamly, line 768: ans + "\n**ERROR**: " + str(e).
StreamErrorString(ans, e) == ans \o <<"\n", ERROR_PREFIX, ": ", e.name>>

(***************************************************************************)
(* The environment: what a provider request may raise.  api says whether   *)
(* the exception is an openai.APIError.                                    *)
(***************************************************************************)
Exceptions ==
    { [name |-> "429 rate limit", api |-> TRUE, words |-> {"429", "rate limit"}],
      [name |-> "401 unauthorized", api |-> TRUE, words |-> {"401", "auth"}],
      [name |-> "503 unavailable", api |-> FALSE, words |-> {"503", "unavailable"}],
      [name |-> "timed out", api |-> FALSE, words |-> {"timed out"}] }

NoExc == [name |-> "", api |-> FALSE, words |-> {}]

\* Non-streaming responses: content present, reasoning_content present,
\* number of tool calls, finish_reason, usage.total_tokens.
Responses ==
    { [content |-> TRUE, reasoning |-> FALSE, tool_calls |-> 0, finish |-> "stop", usage |-> 1],
      [content |-> TRUE, reasoning |-> TRUE, tool_calls |-> 0, finish |-> "length", usage |-> 2],
      [content |-> TRUE, reasoning |-> FALSE, tool_calls |-> 1, finish |-> "tool_calls", usage |-> 1],
      [content |-> FALSE, reasoning |-> FALSE, tool_calls |-> 2, finish |-> "tool_calls", usage |-> 1] }

\* "bad_args": json_repair.loads raises on the call's arguments, before the
\* tool is invoked.
ToolOutcomes == {"ok", "raises", "bad_args"}

\* Chunks of a streamed response: kind is what the delta carries ("content",
\* "reasoning" with no content, "tool" for a tool-call fragment); usage is the
\* chunk's reported total (0: none reported); tokens is what
\* num_tokens_from_string gives for its content.
Chunk(kind, usage, finish) ==
    [kind |-> kind, index |-> 0, usage |-> usage, finish |-> finish,
     tokens |-> IF kind = "content" THEN 1 ELSE 0]
Content == Chunk("content", 0, "")
ContentStop == Chunk("content", 3, "stop")
ContentLength == Chunk("content", 0, "length")
Reasoning == Chunk("reasoning", 0, "")
ToolFragment == Chunk("tool", 0, "")
SecondToolFragment == [ToolFragment EXCEPT !.index = 1]

\* What the provider may stream in answer to a tool-round request, to the
\* forced final request and to a plain streaming request.
ToolStreams ==
    { <<Content>>, <<Reasoning, ContentStop>>, <<ToolFragment>>,
      <<Reasoning, ToolFragment>>, <<Content, ToolFragment>>,
      <<ToolFragment, SecondToolFragment>> }
FinalStreams == { <<Content>>, <<Reasoning, ContentStop>>, <<ToolFragment>> }
PlainStreams == { <<Content>>, <<Reasoning, ContentLength>> }

HasKind(st, kind) == \E i \in 1..Len(st) : st[i].kind = kind

\* Responses with several tool calls are explored for calls made with
\* max_retries = 0; with retries every tool round has one call.
OfferedResponses(n) == {x \in Responses : x.tool_calls =< 1 \/ n = 0}
OfferedToolStreams(n) ==
    {st \in ToolStreams : (\A i \in 1..Len(st) : st[i].index = 0) \/ n = 0}

(***************************************************************************)
(* The operations of the two classes.                                      *)
(***************************************************************************)
PlainOps == {"chat", "async_chat"}
ToolOps == {"chat_with_tools", "async_chat_with_tools"}
PlainStreamOps == {"chat_streamly", "async_chat_streamly"}
ToolStreamOps == {"chat_streamly_with_tools", "async_chat_streamly_with_tools"}

Operations ==
    ({"Base"} \X (PlainOps \cup ToolOps \cup PlainStreamOps \cup ToolStreamOps))
    \cup ({"LiteLLM"} \X {"chat", "async_chat", "chat_with_tools", "chat_streamly",
                          "async_chat_streamly", "chat_streamly_with_tools"})

\* The operations whose body is a "for attempt in range(max_retries + 1)" loop.
HasRetryLoop(c, o) ==
    \/ o \in PlainOps \cup ToolOps \cup ToolStreamOps
    \/ c = "LiteLLM" /\ o = "async_chat_streamly"

\* Base.chat_with_tools line 370 and Base.chat_streamly_with_tools line 508
\* say "history = hist": the working list IS the saved copy.  All other
\* tool-enabled operations say "history = deepcopy(hist)".
SharesHist(c, o) ==
    c = "Base" /\ o \in {"chat_with_tools", "chat_streamly_with_tools"}

\* Whether the forced final request is issued with tools and tool_choice.
FinalCarriesTools(c, o) ==
    \/ c = "Base" /\ o = "async_chat_streamly_with_tools"
    \/ c = "LiteLLM" /\ o = "chat_streamly_with_tools"

\* range(max_rounds + 1), read with one round too few.
InRoundRangeShort(r, maxr) == r < maxr

\* "for _ in range(self.max_rounds + 1)": round r (from 0) is in the range.
InRoundRange(r, maxr) == r < maxr + 1

(***************************************************************************)
(* Messages and histories.                                                 *)
(***************************************************************************)
Msg(role, content, id) == [role |-> role, content |-> content, id |-> id]
NoId == <<>>
UserMsg == Msg("user", "question", NoId)
OldSystemMsg == Msg("system", "caller's system", NoId)
NewSystemMsg == Msg("system", "system argument", NoId)
ExceedMsg == Msg("user", "Exceed max rounds", NoId)

\* Whether the caller supplies a system string.
SystemChoices == {TRUE}

CallerHistories == { <<UserMsg>> }

\* InsertSystem without the test of the first message's role.
InsertSystemUntested(system, h) ==
    IF system /\ Len(h) > 0 THEN <<NewSystemMsg>> \o h ELSE h

\* "if system and history and history[0].get('role') != 'system':
\*      history.insert(0, {...})"
InsertSystem(system, h) ==
    IF system /\ Len(h) > 0 /\ h[1].role # "system" THEN <<NewSystemMsg>> \o h ELSE h

\* LiteLLMBase.async_chat, lines 941-944: on a copy, also for an empty history.
InsertSystemLite(system, h) ==
    IF system /\ (Len(h) = 0 \/ h[1].role # "system") THEN <<NewSystemMsg>> \o h ELSE h

(***************************************************************************)
(* Two top-level calls of Base.chat_with_tools on one adapter.  What the   *)
(* calls share is self: max_retries, max_rounds, tools and the clients,    *)
(* which no chat operation assigns.  attempt, hist (history is the same    *)
(* list after "history = hist"), ans and tk_count are locals of the        *)
(* call's frame.                                                           *)
(***************************************************************************)
TopLevelCalls == {1, 2}
MaxScript == 2

NotCalled == <<[kind |-> "not called", name |-> ""]>>
IdleFrame ==
    [phase |-> "idle", attempt |-> 0, round |-> 0, hist |-> <<>>, ans |-> 0,
     tk_count |-> 0, pos |-> 0, requests |-> <<>>, result |-> [kind |-> "none"]]

\* An error text: its words in order, and whether it is written in upper
\* case.  A word is a keyword of the classifier or a word that is none.
NoText == [words |-> <<>>, upper |-> FALSE, raised |-> FALSE]

NoConfCall == [cls |-> "Base", op |-> "chat", gpt5 |-> FALSE, supplied |-> {}, pc |-> "idle"]

NotReading == [loop |-> "none", reasoning_start |-> FALSE]

NoTask ==
    [op |-> "none", pc |-> "idle", round |-> 0, pending |-> 0, history |-> <<>>,
     processed |-> 0, requests |-> <<>>]
NoToolThread == [state |-> "idle", on_loop |-> FALSE]
NoOtherTask == [steps |-> 0, during_tool |-> FALSE]

NoBackoff ==
    [pc |-> "idle", max_retries |-> 0, base_delay |-> 0, attempt |-> 0, attempts |-> 0,
     delays |-> <<>>, retryable_only |-> TRUE, e |-> NoExc, returned |-> ""]

NoReply ==
    [pc |-> "idle", cls |-> "", op |-> "", qwq |-> FALSE, chunks |-> <<>>, content |-> <<>>,
     finish |-> "", usage |-> 0, text |-> <<>>, tokens |-> 0]


NoCtx == [pc |-> "idle", cls |-> "", history |-> <<>>, ctx_size |-> 0]


EmptyDb == [groups |-> <<>>, members |-> {}, perms |-> {}, ops |-> 0]
NoRbac ==
    [kind |-> "none", user |-> "", group_id |-> 0, kb_ids |-> {}, permission_type |-> "",
     granted |-> {}, is_admin |-> FALSE, code |-> "", handler_ran |-> FALSE]


NoRace == [history |-> <<>>, initial |-> <<>>, started |-> FALSE,
           threads |-> [t \in TopLevelCalls |-> [pc |-> "idle", op |-> "", system |-> FALSE,
                                                  inserts |-> FALSE]]]


\* The tool-call loop of a streaming tool operation, idle.
NoTrace == [pc |-> "idle", cls |-> "", op |-> "", max_rounds |-> 0, round |-> 0,
            rounds |-> <<>>, pending |-> <<>>, events |-> <<>>]


\* BuiltinEmbed's class attributes as the class statement leaves them
\* (model 0 stands for None, lock 0 for a free lock), and threads about to
\* construct an instance.
DefaultMaxTokens == 500
NoEmbed == [started |-> FALSE, tei |-> FALSE, EMBEDDING_MDL |-> "",
            model |-> 0, model_name |-> "", max_tokens |-> DefaultMaxTokens,
            lock |-> 0, constructed |-> 0,
            threads |-> [t \in TopLevelCalls |->
                           [pc |-> "idle", model |-> 0, model_name |-> "", max_tokens |-> 0]]]

VARIABLES
    cls, op, max_retries, max_rounds,   \* the adapter and the operation called
    caller,        \* the caller's history list
    pc,            \* where the operation is
    attempt,       \* the retry loop's variable
    round,         \* iterations of the inner loop begun in this attempt
    history,       \* the working message list
    hist,          \* the copy saved before the retry loop
    calls,         \* the tool calls of the current round not yet processed
    stream,        \* the chunks of the open stream not yet received
    local,         \* a streaming round's locals: answer, reasoning_start, final_tool_calls
    yielded,       \* what the consumer of a streaming operation received
    exc,           \* the exception being handled
    ans,           \* chat_with_tools: the accumulated answer, each piece with its attempt
    tk_count,      \* tk_count / total_tokens
    result,        \* what a non-streaming operation returned
    nreq,          \* provider requests issued by the call
    lastReq,       \* the latest provider request
    firstMsgs,     \* per attempt begun: the messages of its first request
    sleeps,        \* backoff sleeps begun
    prov,          \* what the provider did so far
    supplied,      \* the caller's history list as it was when the call was made
    system_arg,    \* whether the call was made with a non-empty system string
    fragments,        \* fragment assembly: the tool-call fragments received so far
    final_tool_calls, \* fragment assembly: the dict built from them, in insertion order
    wrapped,          \* fragment assembly: what _wrap_toolcall_message has built
    gen,           \* bridge: the synchronous generator (its items, how many it has produced, how it ends)
    worker,        \* bridge: where the worker thread is
    callbacks,     \* bridge: the callbacks handed to loop.call_soon_threadsafe, not yet run
    queue,         \* bridge: what has been put into the asyncio.Queue, in order
    scripts,       \* concurrent calls: what the provider answers to each call's requests
    frames,        \* concurrent calls: the local variables of each call's frame
    error_text,    \* classifier: the text of the error being classified
    codes,         \* classifier: the codes _classify_error returned for it, in order
    conf_call,     \* generation options: the adapter, operation and model of the call, its position
    gen_conf,      \* generation options: the keys of the call's gen_conf
    passed,        \* generation options: the keys passed to the provider with the request
    reading,       \* reasoning markers: the loop that reads the stream, its reasoning_start
    chunks,        \* reasoning markers: the chunks of the stream not yet read
    seen,          \* reasoning markers: the kinds of the chunks read, in order
    out,           \* reasoning markers: what was yielded for each chunk read
    atask,         \* async tools: the task running the async tool operation
    tool_thread,   \* async tools: the tool invocation in flight
    other_task,    \* async tools: another task of the same event loop
    backoff,       \* backoff: a call's retry loop with the delays of its sleeps
    reply,         \* _chat: the provider's response and what the call returns
    ctx,           \* _calculate_dynamic_ctx: the history given and the window returned
    db,            \* rbac: the group, membership and permission tables
    rbac,          \* rbac: the answer to the last query or API request
    race,          \* threads calling with one history list: the list and each thread's position
    trace,         \* the tool-call loop of a streaming tool operation
    embed          \* BuiltinEmbed's class attributes and the constructing threads

\* The variables of one chat call, and those of the parts modelled on their
\* own (they do not move during a chat call).
chatVars == <<cls, op, max_retries, max_rounds, caller, pc, attempt, round, history, hist,
              calls, stream, local, yielded, exc, ans, tk_count, result, nreq, lastReq,
              firstMsgs, sleeps, prov, supplied, system_arg>>
assemblyVars == <<fragments, final_tool_calls, wrapped>>
bridgeVars == <<gen, worker, callbacks, queue>>
concurrentVars == <<scripts, frames>>
classifyVars == <<error_text, codes>>
confVars == <<conf_call, gen_conf, passed>>
thinkVars == <<reading, chunks, seen, out>>
asyncVars == <<atask, tool_thread, other_task>>
sideVars == <<assemblyVars, bridgeVars, concurrentVars, classifyVars, confVars, thinkVars,
              asyncVars, backoff, reply,
              ctx,
              db, rbac,
              race,
              trace,
              embed>>
vars == <<chatVars, sideVars>>

cfgVars == <<cls, op, max_retries, max_rounds, caller, supplied, system_arg>>
streamVars == <<stream, local, yielded>>

NoReq == [phase |-> "none", tools |-> FALSE, tool_choice |-> FALSE, stream |-> FALSE,
          messages |-> <<>>, attempt |-> 0]
NoResult == [kind |-> "none", text |-> <<>>, ans |-> <<>>, tokens |-> 0]
NoLocal == [answer |-> FALSE, reasoning_start |-> FALSE, final_tool_calls |-> <<>>,
            last_delta |-> <<>>, yielded_text |-> FALSE]
NoYield == [ints |-> 0, last |-> "none", late |-> FALSE, error |-> <<>>, tokens |-> 0,
            text |-> "none"]

Init ==
    /\ cls = "Base" /\ op = "chat" /\ max_retries = 0 /\ max_rounds = 0
    /\ caller = <<>>
    /\ pc = "idle"
    /\ attempt = 0 /\ round = 0
    /\ history = <<>> /\ hist = <<>>
    /\ calls = <<>>
    /\ stream = <<>> /\ local = NoLocal /\ yielded = NoYield
    /\ exc = NoExc
    /\ ans = <<>>
    /\ tk_count = 0
    /\ result = NoResult
    /\ nreq = 0
    /\ lastReq = NoReq
    /\ firstMsgs = <<>>
    /\ sleeps = 0
    /\ prov = [succeeded |-> FALSE, failedRetryable |-> FALSE, failedTerminal |-> FALSE,
               roundWithoutTool |-> FALSE, roundWithContent |-> FALSE,
               tokens |-> 0]
    /\ supplied = <<>> /\ system_arg = FALSE
    /\ fragments = <<>> /\ final_tool_calls = <<>>
    /\ wrapped = [raised |-> FALSE, calls |-> <<>>]
    /\ gen = [items |-> <<>>, pos |-> 0, ending |-> "return"]
    /\ worker = "not started" /\ callbacks = <<>> /\ queue = <<>>
    /\ scripts = [i \in TopLevelCalls |-> NotCalled]
    /\ frames = [i \in TopLevelCalls |-> IdleFrame]
    /\ error_text = NoText /\ codes = <<>>
    /\ conf_call = NoConfCall /\ gen_conf = {} /\ passed = {}
    /\ reading = NotReading /\ chunks = <<>> /\ seen = <<>> /\ out = <<>>
    /\ atask = NoTask /\ tool_thread = NoToolThread /\ other_task = NoOtherTask
    /\ backoff = NoBackoff
    /\ reply = NoReply
    /\ ctx = NoCtx
    /\ db = EmptyDb
    /\ rbac = NoRbac
    /\ race = NoRace
    /\ trace = NoTrace
    /\ embed = NoEmbed

(***************************************************************************)
(* Bookkeeping shared by the steps.                                        *)
(***************************************************************************)
\* A provider request is issued with these arguments.
Issue(phase, tools, streaming, msgs) ==
    /\ nreq' = nreq + 1
    /\ lastReq' = [phase |-> phase, tools |-> tools, tool_choice |-> tools,
                   stream |-> streaming, messages |-> msgs, attempt |-> attempt]
    /\ firstMsgs' = IF Len(firstMsgs) < attempt + 1 THEN Append(firstMsgs, msgs) ELSE firstMsgs

\* The provider raised e (at the request or while its stream was read).
Raised(e) ==
    /\ exc' = e
    /\ prov' = [prov EXCEPT !.failedRetryable = @ \/ should_retry(classify_error(e)),
                            !.failedTerminal = @ \/ ~should_retry(classify_error(e))]

\* hist.append(...) on the working list; under "history = hist" the saved
\* copy is the same list.
AppendHistory(msgs) ==
    /\ history' = history \o msgs
    /\ hist' = IF SharesHist(cls, op) THEN history \o msgs ELSE hist

\* _append_history: the assistant entry of a call and its tool entry.
ToolCallEntries(id) == <<Msg("assistant", "tool_calls", id), Msg("tool", "result", id)>>

\* No entry at all for a failed tool call.
ToolErrorEntryNone(id) == <<>>

\* The except clause of a tool call: one tool entry with the exception text.
ToolErrorEntry(id) == <<Msg("tool", "Tool call error", id)>>

\* A piece of the accumulated answer, with the attempt that produced it.
Piece(k) == [k |-> k, a |-> attempt]

\* _length_stop: the length notification appended to a text.
LengthStop(text, finish) ==
    IF finish = "length" THEN text \o <<Piece("length notification")>> ELSE text

\* "for attempt in range(self.max_retries + 1):": where attempt number att
\* starts, or the statement after the loop.
AttemptStart(o, att, maxr) ==
    IF att < maxr + 1
    THEN (IF o \in ToolOps \cup ToolStreamOps THEN "round" ELSE "request")
    ELSE "assert"                 \* assert False, "Shouldn't be here."

(***************************************************************************)
(* The consumer's view of a generator: how many integers it received, the  *)
(* kind of the last item, whether a string came after an integer, the      *)
(* error string and the last integer.                                      *)
(***************************************************************************)
YieldStr(y) == [y EXCEPT !.last = "str", !.late = @ \/ y.ints > 0]
\* The same, remembering what the latest string was.
YieldText(y, what) == [YieldStr(y) EXCEPT !.text = what]
YieldInt(y, n) == [y EXCEPT !.last = "int", !.ints = @ + 1, !.tokens = n]

(***************************************************************************)
(* The entry of an operation: the system message, the saved copy, the      *)
(* first attempt.                                                          *)
(***************************************************************************)
Call(c, o, n, r, system, h) ==
    /\ pc = "idle"
    /\ cls' = c /\ op' = o /\ max_retries' = n /\ max_rounds' = r
    /\ LET lite == c = "LiteLLM" /\ o = "async_chat"
           msgs == IF lite THEN InsertSystemLite(system, h) ELSE InsertSystem(system, h)
       IN  /\ caller' = IF lite THEN h ELSE msgs
           /\ history' = msgs
           /\ hist' = IF o \in ToolOps \cup ToolStreamOps THEN msgs ELSE <<>>
    /\ attempt' = 0
    /\ pc' = IF HasRetryLoop(c, o) THEN AttemptStart(o, 0, n) ELSE "request"
    /\ supplied' = h /\ system_arg' = system
    /\ UNCHANGED <<sideVars, round, calls, streamVars, exc, ans, tk_count, result, nreq, lastReq,
                   firstMsgs, sleeps, prov>>

(***************************************************************************)
(* The except clauses.                                                     *)
(***************************************************************************)
\* "except Exception as e: e = self._exceptions(e, attempt); if e: return
\* e, tk_count" (chat: "return e, 0"; generators: "yield e; yield
\* total_tokens; return").  _exceptions classifies, overrides the code on
\* the last attempt, and either starts the backoff sleep or formats the
\* error string.
HandleException(e) ==
    LET error_code == ErrorCodeAt(e, attempt, max_retries) IN
    IF should_retry(error_code)
    THEN /\ pc' = "sleep"
         /\ sleeps' = sleeps + 1
         /\ UNCHANGED <<result, yielded>>
    ELSE /\ pc' = "done"
         /\ IF op \in PlainOps \cup ToolOps
            THEN /\ result' = [kind |-> "error", text |-> ErrorString(error_code, e),
                               ans |-> <<>>,
                               tokens |-> IF op \in PlainOps THEN 0 ELSE tk_count]
                 /\ UNCHANGED yielded
            ELSE /\ yielded' = YieldInt([YieldText(yielded, "error") EXCEPT
                                            !.error = ErrorString(error_code, e)], tk_count)
                 /\ UNCHANGED result
         /\ UNCHANGED sleeps

\* chat_streamly: "except openai.APIError as e: yield ans + '\n**ERROR**: '
\* + str(e)", then "yield total_tokens"; any other exception leaves the
\* generator.  ans is "" in the synchronous generators and the last delta in
\* Base.async_chat_streamly (line 270).
StreamlyExcept(e) ==
    /\ IF e.api
       THEN /\ yielded' = YieldInt([YieldText(yielded, "error") EXCEPT !.error =
                              StreamErrorString(
                                  IF op = "async_chat_streamly" THEN local.last_delta ELSE <<>>,
                                  e)], tk_count)
            /\ pc' = "done"
       ELSE /\ pc' = "raised"
            /\ UNCHANGED yielded
    /\ UNCHANGED <<result, sleeps>>

\* The provider raised e, at the request or while its stream was read: the
\* operation's except clause runs.  Sets pc, exc, prov, sleeps, result and
\* yielded.
Catch(e) ==
    /\ Raised(e)
    /\ IF HasRetryLoop(cls, op) THEN HandleException(e) ELSE StreamlyExcept(e)

\* time.sleep(delay) / asyncio.sleep(delay) returns: the handler returns
\* None and the retry loop goes on with its next attempt, in the
\* tool-enabled operations from "history = hist" / "history = deepcopy(hist)".
Wake ==
    /\ pc = "sleep"
    /\ attempt' = attempt + 1
    /\ pc' = AttemptStart(op, attempt + 1, max_retries)
    /\ history' = IF op \in ToolOps \cup ToolStreamOps THEN hist ELSE history
    /\ round' = 0
    /\ exc' = NoExc
    /\ UNCHANGED <<cfgVars, sideVars, hist, calls, streamVars, ans, tk_count, result, nreq, lastReq,
                   firstMsgs, sleeps, prov>>

(***************************************************************************)
(* chat / async_chat: one request per attempt (_chat, _async_chat).        *)
(***************************************************************************)
ChatRequest ==
    /\ pc = "request" /\ op \in PlainOps
    /\ Issue("plain", FALSE, FALSE, history)
    /\ \/ \E e \in Exceptions : Catch(e)
       \/ \E rsp \in {x \in Responses : x.tool_calls = 0} \cup {[content |-> FALSE]} :
            /\ result' = IF rsp.content
                         THEN [kind |-> "answer", text |-> <<>>,
                               ans |-> LengthStop(<<Piece("content")>>, rsp.finish),
                               tokens |-> rsp.usage]
                         ELSE [kind |-> "answer", text |-> <<>>, ans |-> <<>>, tokens |-> 0]
            /\ prov' = [prov EXCEPT !.succeeded = TRUE,
                                    !.tokens = @ + (IF rsp.content THEN rsp.usage ELSE 0)]
            /\ pc' = "done"
            /\ UNCHANGED <<exc, sleeps, yielded>>
    /\ UNCHANGED <<cfgVars, sideVars, attempt, round, history, hist, calls, stream, local, ans,
                   tk_count>>

(***************************************************************************)
(* chat_with_tools / async_chat_with_tools.                                *)
(***************************************************************************)
\* One iteration of the inner loop up to the tool calls: the request with
\* tools and tool_choice = "auto", the token count, the answer without tool
\* calls.
ToolRoundRequest ==
    /\ pc = "round" /\ op \in ToolOps
    /\ InRoundRange(round, max_rounds)
    /\ Issue("round", TRUE, FALSE, history)
    /\ \/ \E e \in Exceptions :
            /\ Catch(e)
            /\ UNCHANGED <<tk_count, ans, calls>>
       \/ \E rsp \in OfferedResponses(max_retries) :
            /\ tk_count' = tk_count + rsp.usage
            /\ prov' = [prov EXCEPT !.succeeded = TRUE,
                                    !.roundWithoutTool = @ \/ rsp.tool_calls = 0,
                                    !.tokens = @ + rsp.usage]
            /\ UNCHANGED <<exc, sleeps, yielded>>
            /\ IF rsp.tool_calls = 0
               THEN /\ ans' = LengthStop(
                                ans \o (IF rsp.reasoning THEN <<Piece("think")>> ELSE <<>>)
                                    \o <<Piece("content")>>, rsp.finish)
                    /\ result' = [kind |-> "answer", text |-> <<>>, ans |-> ans',
                                  tokens |-> tk_count']
                    /\ pc' = "done"
                    /\ UNCHANGED calls
               ELSE /\ calls' = [i \in 1..rsp.tool_calls |-> <<round, i>>]
                    /\ pc' = "tools"
                    /\ UNCHANGED <<ans, result>>
    /\ UNCHANGED <<cfgVars, sideVars, attempt, round, history, hist, stream, local>>

\* The body of "for tool_call in ...tool_calls": the call succeeds (two
\* history entries and a trace) or raises (one tool entry and a trace).
ExecToolCall ==
    /\ pc = "tools" /\ op \in ToolOps
    /\ calls # <<>>
    /\ LET id == Head(calls) IN
       \E outcome \in ToolOutcomes :
         IF outcome = "ok"
         THEN /\ AppendHistory(ToolCallEntries(id))
              /\ ans' = Append(ans, Piece("tool trace"))
         ELSE /\ AppendHistory(ToolErrorEntry(id))
              /\ ans' = Append(ans, Piece("tool error trace"))
    /\ calls' = Tail(calls)
    /\ IF Tail(calls) = <<>>
       THEN round' = round + 1 /\ pc' = "round"
       ELSE UNCHANGED <<round, pc>>
    /\ UNCHANGED <<cfgVars, sideVars, attempt, streamVars, exc, tk_count, result, nreq, lastReq,
                   firstMsgs, sleeps, prov>>

\* After the inner loop: the user message about the exceeded rounds.
ExceedRounds ==
    /\ pc = "round" /\ op \in ToolOps \cup ToolStreamOps
    /\ ~InRoundRange(round, max_rounds)
    /\ AppendHistory(<<ExceedMsg>>)
    /\ pc' = "final"
    /\ UNCHANGED <<cfgVars, sideVars, attempt, round, calls, streamVars, exc, ans, tk_count, result,
                   nreq, lastReq, firstMsgs, sleeps, prov>>

\* "response, token_count = self._chat(history, gen_conf)": the forced
\* final request of the non-streaming operations.
FinalRequest ==
    /\ pc = "final" /\ op \in ToolOps
    /\ Issue("final", FALSE, FALSE, history)
    /\ \/ \E e \in Exceptions :
            /\ Catch(e)
            /\ UNCHANGED <<ans, tk_count>>
       \/ \E rsp \in {x \in Responses : x.tool_calls = 0} \cup {[content |-> FALSE]} :
            /\ ans' = IF rsp.content
                      THEN LengthStop(Append(ans, Piece("final content")), rsp.finish)
                      ELSE ans
            /\ tk_count' = tk_count + (IF rsp.content THEN rsp.usage ELSE 0)
            /\ result' = [kind |-> "answer", text |-> <<>>, ans |-> ans',
                          tokens |-> tk_count']
            /\ prov' = [prov EXCEPT !.succeeded = TRUE,
                                    !.tokens = @ + (IF rsp.content THEN rsp.usage ELSE 0)]
            /\ pc' = "done"
            /\ UNCHANGED <<exc, sleeps, yielded>>
    /\ UNCHANGED <<cfgVars, sideVars, attempt, round, history, hist, calls, stream, local>>

(***************************************************************************)
(* chat_streamly_with_tools / async_chat_streamly_with_tools.              *)
(***************************************************************************)
\* Base keeps the chunk's reported total ("total_tokens = tol"), LiteLLMBase
\* adds it ("total_tokens += tol"); without a reported total both add the
\* estimate of the chunk's content.
CountChunk(c, total, chunk) ==
    IF chunk.usage = 0 THEN total + chunk.tokens
    ELSE IF c = "Base" THEN chunk.usage
    ELSE total + chunk.usage

\* What a chunk adds to the count of its request: the total it reports
\* (reported by the one chunk of a stream that is not estimated at 0), or
\* else the estimate of its content.
ChunkTokens(chunk) == IF chunk.usage = 0 THEN chunk.tokens ELSE chunk.usage

\* The head of an inner-loop iteration: the locals and the streamed request
\* with tools and tool_choice = "auto".
ToolStreamRequest ==
    /\ pc = "round" /\ op \in ToolStreamOps
    /\ InRoundRange(round, max_rounds)
    /\ Issue("round", TRUE, TRUE, history)
    /\ local' = NoLocal
    /\ \/ \E e \in Exceptions :
            /\ Catch(e)
            /\ UNCHANGED stream
       \/ \E st \in OfferedToolStreams(max_retries) :
            /\ stream' = st
            /\ prov' = [prov EXCEPT !.roundWithoutTool = @ \/ ~HasKind(st, "tool"),
                                    !.roundWithContent = @ \/ HasKind(st, "content")]
            /\ pc' = "stream"
            /\ UNCHANGED <<exc, sleeps, result, yielded>>
    /\ UNCHANGED <<cfgVars, sideVars, attempt, round, history, hist, calls, ans, tk_count>>

\* One turn of "for resp in response": the stream raises, or its next chunk
\* is a tool-call fragment (kept, nothing yielded), reasoning or content.
ToolStreamChunk ==
    /\ pc = "stream" /\ op \in ToolStreamOps
    /\ stream # <<>>
    /\ \/ \E e \in Exceptions :
            /\ Catch(e)
            /\ stream' = <<>>
            /\ local' = NoLocal
            /\ UNCHANGED tk_count
       \/ LET chunk == Head(stream) IN
            /\ stream' = Tail(stream)
            /\ UNCHANGED <<exc, pc, sleeps, result>>
            /\ prov' = [prov EXCEPT !.tokens = @ + ChunkTokens(chunk)]
            /\ IF chunk.kind = "tool"
               THEN /\ local' = [local EXCEPT !.final_tool_calls =
                                    IF \E i \in 1..Len(@) : @[i] = chunk.index
                                    THEN @ ELSE Append(@, chunk.index)]
                    /\ UNCHANGED <<yielded, tk_count>>
               ELSE /\ local' = IF chunk.kind = "reasoning"
                                THEN [local EXCEPT !.reasoning_start = TRUE,
                                                   !.yielded_text = TRUE]
                                ELSE [local EXCEPT !.reasoning_start = FALSE,
                                                   !.answer = TRUE,
                                                   !.yielded_text = TRUE]
                    /\ tk_count' = CountChunk(cls, tk_count, chunk)
                    /\ yielded' = IF chunk.finish = "length"
                                  THEN YieldText(YieldText(yielded, "delta"), "length notification")
                                  ELSE YieldText(yielded, "delta")
    /\ UNCHANGED <<cfgVars, sideVars, attempt, round, history, hist, calls, ans, nreq, lastReq,
                   firstMsgs>>

\* After the stream: "if answer: yield total_tokens; return", else the
\* tool calls gathered from the fragments.
ToolStreamEnd ==
    /\ pc = "stream" /\ op \in ToolStreamOps
    /\ stream = <<>>
    /\ prov' = [prov EXCEPT !.succeeded = TRUE]
    /\ IF local.answer
       THEN /\ yielded' = YieldInt(yielded, tk_count)
            /\ pc' = "done"
            /\ UNCHANGED <<calls, round>>
       ELSE /\ calls' = [i \in 1..Len(local.final_tool_calls) |->
                            <<round, local.final_tool_calls[i] + 1>>]
            /\ IF local.final_tool_calls = <<>>
               THEN round' = round + 1 /\ pc' = "round"
               ELSE pc' = "tools" /\ UNCHANGED round
            /\ UNCHANGED yielded
    /\ UNCHANGED <<cfgVars, sideVars, attempt, history, hist, stream, local, exc, ans, tk_count,
                   result, nreq, lastReq, firstMsgs, sleeps>>

\* The body of "for tool_call in final_tool_calls.values()": the trace
\* "Begin to call...", then the result's trace or the failure's.
ExecStreamToolCall ==
    /\ pc = "tools" /\ op \in ToolStreamOps
    /\ calls # <<>>
    /\ LET id == Head(calls) IN
       \E outcome \in ToolOutcomes :
         IF outcome = "ok"
         THEN /\ AppendHistory(ToolCallEntries(id))
              /\ yielded' = YieldText(YieldText(yielded, "begin"), "tool trace")
         ELSE /\ AppendHistory(ToolErrorEntry(id))
              /\ yielded' = YieldText(IF outcome = "raises" THEN YieldText(yielded, "begin")
                                      ELSE yielded, "tool error trace")
    /\ calls' = Tail(calls)
    /\ IF Tail(calls) = <<>>
       THEN round' = round + 1 /\ pc' = "round"
       ELSE UNCHANGED <<round, pc>>
    /\ UNCHANGED <<cfgVars, sideVars, attempt, stream, local, exc, ans, tk_count, result, nreq,
                   lastReq, firstMsgs, sleeps, prov>>

\* The forced final request of the streaming operations.
FinalStreamRequest ==
    /\ pc = "final" /\ op \in ToolStreamOps
    /\ Issue("final", FinalCarriesTools(cls, op), TRUE, history)
    /\ \/ \E e \in Exceptions :
            /\ Catch(e)
            /\ UNCHANGED stream
       \/ \E st \in FinalStreams :
            /\ stream' = st
            /\ pc' = "fstream"
            /\ UNCHANGED <<exc, prov, sleeps, result, yielded>>
    /\ UNCHANGED <<cfgVars, sideVars, attempt, round, history, hist, calls, local, ans, tk_count>>

\* One turn of the final "for resp in response": a chunk without content
\* is skipped, a content chunk is counted and yielded.
FinalStreamChunk ==
    /\ pc = "fstream"
    /\ stream # <<>>
    /\ \/ \E e \in Exceptions :
            /\ Catch(e)
            /\ stream' = <<>>
            /\ UNCHANGED tk_count
       \/ LET chunk == Head(stream) IN
            /\ stream' = Tail(stream)
            /\ prov' = [prov EXCEPT !.tokens = @ + ChunkTokens(chunk)]
            /\ UNCHANGED <<exc, pc, sleeps, result>>
            /\ IF chunk.kind = "content"
               THEN /\ tk_count' = CountChunk(cls, tk_count, chunk)
                    /\ yielded' = YieldText(yielded, "delta")
               ELSE UNCHANGED <<yielded, tk_count>>
    /\ UNCHANGED <<cfgVars, sideVars, attempt, round, history, hist, calls, local, ans, nreq,
                   lastReq, firstMsgs>>

\* "yield total_tokens; return" after the final stream.
FinalStreamEnd ==
    /\ pc = "fstream"
    /\ stream = <<>>
    /\ yielded' = YieldInt(yielded, tk_count)
    /\ prov' = [prov EXCEPT !.succeeded = TRUE]
    /\ pc' = "done"
    /\ UNCHANGED <<cfgVars, sideVars, attempt, round, history, hist, calls, stream, local, exc, ans,
                   tk_count, result, nreq, lastReq, firstMsgs, sleeps>>

(***************************************************************************)
(* chat_streamly / async_chat_streamly over _chat_streamly and             *)
(* _async_chat_stream; LiteLLMBase.async_chat_streamly has its own loop.   *)
(***************************************************************************)
PlainStreamRequest ==
    /\ pc = "request" /\ op \in PlainStreamOps
    /\ Issue("plain", FALSE, TRUE, history)
    /\ \/ \E e \in Exceptions :
            /\ Catch(e)
            /\ UNCHANGED stream
       \/ \E st \in PlainStreams :
            /\ stream' = st
            /\ pc' = "pstream"
            /\ UNCHANGED <<exc, prov, sleeps, result, yielded>>
    /\ UNCHANGED <<cfgVars, sideVars, attempt, round, history, hist, calls, local, ans, tk_count>>

\* One chunk: "yield delta_ans" and "total_tokens += tol", where tol is the
\* chunk's reported total or else the estimate.
PlainStreamChunk ==
    /\ pc = "pstream"
    /\ stream # <<>>
    /\ \/ \E e \in Exceptions :
            /\ Catch(e)
            /\ stream' = <<>>
            /\ UNCHANGED <<tk_count, local>>
       \/ LET chunk == Head(stream) IN
            /\ stream' = Tail(stream)
            /\ local' = [local EXCEPT !.reasoning_start = (chunk.kind = "reasoning"),
                                      !.last_delta = <<chunk.kind>>]
            /\ tk_count' = tk_count + (IF chunk.usage = 0 THEN chunk.tokens ELSE chunk.usage)
            /\ yielded' = YieldText(yielded, "delta")
            /\ prov' = [prov EXCEPT !.tokens = @ + ChunkTokens(chunk)]
            /\ UNCHANGED <<exc, pc, sleeps, result>>
    /\ UNCHANGED <<cfgVars, sideVars, attempt, round, history, hist, calls, ans, nreq, lastReq,
                   firstMsgs>>

\* The stream is exhausted: "yield total_tokens".
PlainStreamEnd ==
    /\ pc = "pstream"
    /\ stream = <<>>
    /\ yielded' = YieldInt(yielded, tk_count)
    /\ prov' = [prov EXCEPT !.succeeded = TRUE]
    /\ pc' = "done"
    /\ UNCHANGED <<cfgVars, sideVars, attempt, round, history, hist, calls, stream, local, exc, ans,
                   tk_count, result, nreq, lastReq, firstMsgs, sleeps>>

Next ==
    \/ \E o \in Operations, n \in 0..MaxRetries, r \in 0..MaxRounds,
          system \in SystemChoices, h \in CallerHistories :
            Call(o[1], o[2], n, r, system, h)
    \/ ChatRequest
    \/ ToolRoundRequest
    \/ ExecToolCall
    \/ ExceedRounds
    \/ FinalRequest
    \/ ToolStreamRequest
    \/ ToolStreamChunk
    \/ ToolStreamEnd
    \/ ExecStreamToolCall
    \/ FinalStreamRequest
    \/ FinalStreamChunk
    \/ FinalStreamEnd
    \/ PlainStreamRequest
    \/ PlainStreamChunk
    \/ PlainStreamEnd
    \/ Wake

Spec == Init /\ [][Next]_vars

(***************************************************************************)
(* The assembly of streamed tool-call fragments: the loop over             *)
(* delta.tool_calls in the streaming tool operations, and                  *)
(* _wrap_toolcall_message.  A fragment is [index, id, name, arguments];    *)
(* arguments is None or a string (a sequence of tokens).  A dict is the    *)
(* sequence of its values in insertion order.                              *)
(***************************************************************************)
MaxFragments == 3

NoneArgs == [none |-> TRUE, text |-> <<>>]
Str(t) == [none |-> FALSE, text |-> t]

Fragments ==
    { [index |-> i, id |-> c.id, name |-> c.name, arguments |-> a] :
        i \in {0, 1},
        c \in {[id |-> "call_a", name |-> "search"], [id |-> "", name |-> ""]},
        a \in {NoneArgs, Str(<<"x">>), Str(<<"y">>)} }

\* "index in final_tool_calls" and the position of that entry.
HasIndex(d, index) == \E k \in 1..Len(d) : d[k].index = index
PosOf(d, index) == CHOOSE k \in 1..Len(d) : d[k].index = index

\* "not tool_call.function.arguments": None or the empty string.
Falsy(a) == a.none \/ a.text = <<>>

\* Lines 520-526: the first fragment of an index is stored, with "" for
\* missing arguments; a later one is concatenated onto the stored string.
AssembleFragment(d, f) ==
    IF ~HasIndex(d, f.index)
    THEN Append(d, [f EXCEPT !.arguments = IF Falsy(f.arguments) THEN Str(<<>>) ELSE @])
    ELSE [d EXCEPT ![PosOf(d, f.index)].arguments =
              Str(@.text \o (IF Falsy(f.arguments) THEN <<>> ELSE f.arguments.text))]

\* _wrap_toolcall_message, lines 491-494: the first fragment of an index
\* is stored and then, being the stored object itself, added to itself;
\* "+=" with None on either side raises TypeError.
WrapFragment(w, f) ==
    IF w.raised THEN w
    ELSE LET stored == IF HasIndex(w.calls, f.index)
                       THEN w.calls[PosOf(w.calls, f.index)].arguments
                       ELSE f.arguments
         IN  IF stored.none \/ f.arguments.none
             THEN [w EXCEPT !.raised = TRUE]
             ELSE IF HasIndex(w.calls, f.index)
                  THEN [w EXCEPT !.calls[PosOf(w.calls, f.index)].arguments =
                                     Str(stored.text \o f.arguments.text)]
                  ELSE [w EXCEPT !.calls = Append(@, [f EXCEPT !.arguments =
                                     Str(stored.text \o f.arguments.text)])]

\* A chunk of the stream delivers one more fragment.
ReceiveFragment ==
    /\ Len(fragments) < MaxFragments
    /\ \E f \in Fragments :
         /\ fragments' = Append(fragments, f)
         /\ final_tool_calls' = AssembleFragment(final_tool_calls, f)
         /\ wrapped' = WrapFragment(wrapped, f)
    /\ UNCHANGED <<chatVars, embed, trace, race, rbac, db, ctx, reply, backoff, asyncVars, thinkVars, confVars, classifyVars, bridgeVars, concurrentVars>>

\* "final_tool_calls = {}": the next response begins.
NewResponse ==
    /\ fragments # <<>>
    /\ fragments' = <<>>
    /\ final_tool_calls' = <<>>
    /\ wrapped' = [raised |-> FALSE, calls |-> <<>>]
    /\ UNCHANGED <<chatVars, embed, trace, race, rbac, db, ctx, reply, backoff, asyncVars, thinkVars, confVars, classifyVars, bridgeVars, concurrentVars>>

NextAssembly == ReceiveFragment \/ NewResponse

SpecAssembly == Init /\ [][NextAssembly]_vars


(***************************************************************************)
(* _bridge_sync_stream: a worker thread iterates over a synchronous        *)
(* generator and hands every item to the event loop with                   *)
(* loop.call_soon_threadsafe(queue.put_nowait, item); the loop runs the    *)
(* callbacks handed to it in the order in which they were handed over.     *)
(* The generator ends by returning or by raising an Exception.             *)
(***************************************************************************)
MaxItems == 2

Item(v) == [kind |-> "item", v |-> v]
ExcObject == [kind |-> "exception", v |-> "exc"]
Sentinel == [kind |-> "sentinel", v |-> "StopAsyncIteration"]

RECURSIVE SeqsUpTo(_, _)
SeqsUpTo(S, n) ==
    IF n = 0 THEN {<<>>}
    ELSE LET shorter == SeqsUpTo(S, n - 1)
         IN  shorter \cup {Append(q, x) : q \in shorter, x \in S}

\* The most recently scheduled callback.
NewestCallback(cbs) == Len(cbs)

\* The callback the loop runs next: the oldest one.
ReadyCallback(cbs) == 1

RemoveAt(q, k) == SubSeq(q, 1, k - 1) \o SubSeq(q, k + 1, Len(q))

\* threading.Thread(target=worker, daemon=True).start(), for a generator
\* with the given behaviour.
StartWorker ==
    /\ worker = "not started"
    /\ \E items \in SeqsUpTo({"a", "b"}, MaxItems), ending \in {"return", "raise"} :
         gen' = [items |-> items, pos |-> 0, ending |-> ending]
    /\ worker' = "for"
    /\ UNCHANGED <<chatVars, embed, trace, race, rbac, db, ctx, reply, backoff, asyncVars, thinkVars, confVars, classifyVars, assemblyVars, concurrentVars, callbacks, queue>>

\* "for item in gen: loop.call_soon_threadsafe(queue.put_nowait, item)":
\* the generator yields its next item, returns or raises.
WorkerIterate ==
    /\ worker = "for"
    /\ IF gen.pos < Len(gen.items)
       THEN /\ gen' = [gen EXCEPT !.pos = @ + 1]
            /\ callbacks' = Append(callbacks, Item(gen.items[gen.pos + 1]))
            /\ UNCHANGED worker
       ELSE /\ worker' = IF gen.ending = "raise" THEN "except" ELSE "finally"
            /\ UNCHANGED <<gen, callbacks>>
    /\ UNCHANGED <<chatVars, embed, trace, race, rbac, db, ctx, reply, backoff, asyncVars, thinkVars, confVars, classifyVars, assemblyVars, concurrentVars, queue>>

\* "except Exception as exc: loop.call_soon_threadsafe(queue.put_nowait, exc)"
WorkerExcept ==
    /\ worker = "except"
    /\ callbacks' = Append(callbacks, ExcObject)
    /\ worker' = "finally"
    /\ UNCHANGED <<chatVars, embed, trace, race, rbac, db, ctx, reply, backoff, asyncVars, thinkVars, confVars, classifyVars, assemblyVars, concurrentVars, gen, queue>>

\* "finally: loop.call_soon_threadsafe(queue.put_nowait, StopAsyncIteration)"
WorkerFinally ==
    /\ worker = "finally"
    /\ callbacks' = Append(callbacks, Sentinel)
    /\ worker' = "finished"
    /\ UNCHANGED <<chatVars, embed, trace, race, rbac, db, ctx, reply, backoff, asyncVars, thinkVars, confVars, classifyVars, assemblyVars, concurrentVars, gen, queue>>

\* The event loop runs a scheduled callback: queue.put_nowait(item).
LoopRunsCallback ==
    /\ callbacks # <<>>
    /\ queue' = Append(queue, callbacks[ReadyCallback(callbacks)])
    /\ callbacks' = RemoveAt(callbacks, ReadyCallback(callbacks))
    /\ UNCHANGED <<chatVars, embed, trace, race, rbac, db, ctx, reply, backoff, asyncVars, thinkVars, confVars, classifyVars, assemblyVars, concurrentVars, gen, worker>>

NextBridge ==
    \/ StartWorker
    \/ WorkerIterate
    \/ WorkerExcept
    \/ WorkerFinally
    \/ LoopRunsCallback

SpecBridge == Init /\ [][NextBridge]_vars


(***************************************************************************)
(* Concurrent top-level calls of Base.chat_with_tools.  A script says what *)
(* the provider does at the call's successive requests: "tool" (a          *)
(* response with one tool call, which succeeds), an exception, and a plain *)
(* answer once the script is used up.                                      *)
(***************************************************************************)
ToolCallResponse == [kind |-> "tool_calls", name |-> ""]
PlainAnswer == [kind |-> "answer", name |-> ""]
Raises(e) == [kind |-> "raises", name |-> e.name]
ScriptedExceptions == {e \in Exceptions : e.name \in {"429 rate limit", "401 unauthorized"}}
Scripts == SeqsUpTo({ToolCallResponse} \cup {Raises(e) : e \in ScriptedExceptions}, MaxScript)

\* Lines 365-370: the frame when the retry loop is entered.
EnteredFrame ==
    [IdleFrame EXCEPT !.phase = "request", !.hist = InsertSystem(TRUE, <<UserMsg>>)]

\* The frame of every call, were attempt, hist, ans and tk_count attributes
\* of self.
FrameOnSelf(i) == 1

\* Where call i keeps attempt, hist, ans and tk_count: in its own frame.
FrameOf(i) == i

\* Lines 408-411: _exceptions either sleeps and lets the loop go on or
\* gives the error string, returned with tk_count.
FrameCatch(l, e) ==
    LET error_code == ErrorCodeAt(e, l.attempt, MaxRetries) IN
    IF should_retry(error_code)
    THEN [l EXCEPT !.phase = "sleep"]
    ELSE [l EXCEPT !.phase = "done",
                   !.result = [kind |-> "error", text |-> ErrorString(error_code, e),
                               tokens |-> l.tk_count]]

\* One step of a call in frame l under script s: a request of the round
\* loop with what follows it (lines 374-400), the forced final request
\* (lines 402-407), or the end of the backoff sleep (lines 369-370).
FrameStep(l, s) ==
    LET o == IF l.pos < Len(s) THEN s[l.pos + 1] ELSE PlainAnswer
        asked == [l EXCEPT !.pos = @ + 1,
                           !.requests = Append(@, [messages |-> l.hist,
                                                   tools |-> l.phase = "request",
                                                   attempt |-> l.attempt])]
        answered == [asked EXCEPT !.phase = "done", !.ans = @ + 1, !.tk_count = @ + 1,
                                  !.result = [kind |-> "answer", ans |-> l.ans + 1,
                                              tokens |-> l.tk_count + 1]]
    IN  CASE l.phase = "sleep" ->
                [l EXCEPT !.phase = "request", !.attempt = @ + 1, !.round = 0]
          [] l.phase = "request" /\ o = ToolCallResponse ->
                [asked EXCEPT !.tk_count = @ + 1, !.ans = @ + 1, !.round = @ + 1,
                              !.hist = @ \o ToolCallEntries(<<l.round, 1>>)
                                         \o (IF InRoundRange(l.round + 1, MaxRounds)
                                             THEN <<>> ELSE <<ExceedMsg>>),
                              !.phase = IF InRoundRange(l.round + 1, MaxRounds)
                                        THEN "request" ELSE "final"]
          [] l.phase \in {"request", "final"} /\ o.kind = "raises" ->
                FrameCatch(asked, CHOOSE e \in ScriptedExceptions : e.name = o.name)
          [] OTHER -> answered

\* The call running alone.
RECURSIVE RunAlone(_, _)
RunAlone(l, s) == IF l.phase = "done" THEN l ELSE RunAlone(FrameStep(l, s), s)

\* A caller starts chat_with_tools on the adapter with its own history list.
StartCall(i) ==
    /\ scripts[i] = NotCalled
    /\ \E s \in Scripts : scripts' = [scripts EXCEPT ![i] = s]
    /\ frames' = [frames EXCEPT ![FrameOf(i)] = EnteredFrame]
    /\ UNCHANGED <<chatVars, embed, trace, race, rbac, db, ctx, reply, backoff, asyncVars, thinkVars, confVars, classifyVars, assemblyVars, bridgeVars>>

\* Call i takes its next step.
CallStep(i) ==
    /\ scripts[i] # NotCalled
    /\ frames[FrameOf(i)].phase \notin {"idle", "done"}
    /\ frames' = [frames EXCEPT ![FrameOf(i)] = FrameStep(@, scripts[i])]
    /\ UNCHANGED <<chatVars, embed, trace, race, rbac, db, ctx, reply, backoff, asyncVars, thinkVars, confVars, classifyVars, assemblyVars, bridgeVars, scripts>>

NextConcurrent == \E i \in TopLevelCalls : StartCall(i) \/ CallStep(i)

SpecConcurrent == Init /\ [][NextConcurrent]_vars


(***************************************************************************)
(* chat and async_chat called again and again by one caller, with or       *)
(* without a system string, on a fresh history list or on the list of its  *)
(* previous call.                                                          *)
(***************************************************************************)
MaxCalls == 2

FreshHistories == { <<UserMsg>>, <<OldSystemMsg, UserMsg>>, <<UserMsg, UserMsg>> }

\* chat or async_chat (system, history) is called on a one-attempt adapter.
CallChat ==
    /\ nreq < MaxCalls
    /\ \E c \in {"Base", "LiteLLM"}, o \in PlainOps, system \in BOOLEAN,
          h \in FreshHistories \cup {caller} :
         Call(c, o, 0, 0, system, h)

\* The caller has the result and keeps its history list.
ChatReturns ==
    /\ pc = "done"
    /\ pc' = "idle"
    /\ UNCHANGED <<cfgVars, sideVars, attempt, round, history, hist, calls, streamVars, exc,
                   ans, tk_count, result, nreq, lastReq, firstMsgs, sleeps, prov>>

NextSystem ==
    \/ CallChat
    \/ ChatRequest
    \/ ChatReturns

SpecSystem == Init /\ [][NextSystem]_vars


(***************************************************************************)
(* _classify_error on error texts.  str.lower() turns an upper-case text   *)
(* into its lower-case form; re.search finds a keyword where it occurs in  *)
(* the text it is given, so in an upper-case text only keywords made of    *)
(* digits are found.                                                       *)
(***************************************************************************)
MaxWords == 2
MaxClassifications == 2

AllKeywords == UNION {keywords_mapping[i].words : i \in 1..Len(keywords_mapping)}
\* The words of the error texts: every keyword of the first three groups,
\* keywords of each later group, and a word that is no keyword.
Vocabulary ==
    keywords_mapping[1].words \cup keywords_mapping[2].words \cup keywords_mapping[3].words
        \cup {"invalid", "server", "503", "timeout", "timed out", "connect", "content",
              "model", "max rounds", "oops"}
Digits == {"429", "401", "400", "503", "502", "504", "500"}

\* The keywords that occur in a word as substrings.
Substrings(word) == IF word = "apikey" THEN {"apikey", "key"} ELSE {word}

\* The text as it is.
KeepCase(text) == text

\* str(error).lower()
Lower(text) == [text EXCEPT !.upper = FALSE]

\* re.search of one keyword in a text.
Occurs(kw, text) ==
    /\ \E k \in 1..Len(text.words) : kw \in Substrings(text.words[k])
    /\ text.upper => kw \in Digits

\* The keywords with which the text begins (re.match).
KeywordsAtStart(text) ==
    {kw \in AllKeywords : text.words # <<>> /\ Occurs(kw, [text EXCEPT !.words = <<Head(@)>>])}

\* The keywords re.search finds in the text.
KeywordsIn(text) == {kw \in AllKeywords : Occurs(kw, text)}

\* _classify_error without "lower()".
ClassifyTextAsWritten(text) == ClassifyFrom(1, KeywordsIn(text))

\* _classify_error(error)
ClassifyText(text) == ClassifyFrom(1, KeywordsIn(Lower(text)))

\* A provider call raises an error with some text.
RaiseError ==
    /\ ~error_text.raised
    /\ \E ws \in SeqsUpTo(Vocabulary, MaxWords), up \in BOOLEAN :
         error_text' = [words |-> ws, upper |-> up, raised |-> TRUE]
    /\ UNCHANGED <<chatVars, embed, trace, race, rbac, db, ctx, reply, backoff, asyncVars, thinkVars, confVars, assemblyVars, bridgeVars, concurrentVars, codes>>

\* self._classify_error(e) is called on it.
ClassifyError ==
    /\ error_text.raised
    /\ Len(codes) < MaxClassifications
    /\ codes' = Append(codes, ClassifyText(error_text))
    /\ UNCHANGED <<chatVars, embed, trace, race, rbac, db, ctx, reply, backoff, asyncVars, thinkVars, confVars, assemblyVars, bridgeVars, concurrentVars, error_text>>

NextClassify ==
    \/ RaiseError
    \/ ClassifyError

SpecClassify == Init /\ [][NextClassify]_vars


(***************************************************************************)
(* _clean_conf and the generation options of a request.  A gen_conf is     *)
(* modelled by its set of keys.                                            *)
(***************************************************************************)
allowed_conf ==
    {"temperature", "max_completion_tokens", "top_p", "stream", "stream_options", "stop", "n",
     "presence_penalty", "frequency_penalty", "functions", "function_call", "logit_bias",
     "user", "response_format", "seed", "tools", "tool_choice", "logprobs", "top_logprobs",
     "extra_headers"}

\* The keys a caller may supply: allowed ones, max_tokens, one that is not
\* in the allow-list.
ConfKeys == {"temperature", "top_p", "max_completion_tokens", "max_tokens", "top_k"}

\* Base._clean_conf (lines 106-140) and LiteLLMBase._clean_conf (869-872).
clean_conf(c, gpt5, conf) ==
    IF c = "LiteLLM" THEN conf \ {"max_tokens"}
    ELSE IF gpt5 THEN {}
    ELSE (conf \ {"max_tokens"}) \cap allowed_conf

\* How often the operation applies _clean_conf before its request:
\* LiteLLMBase.async_chat never (940-950), LiteLLMBase.chat_streamly twice
\* (1387 and, in _chat_streamly, 896), the others once.
CleanConfCalls(c, o) ==
    IF c = "LiteLLM" /\ o = "async_chat" THEN 0
    ELSE IF c = "LiteLLM" /\ o = "chat_streamly" THEN 2
    ELSE 1

ConfOps == {"chat", "async_chat", "chat_streamly"}

\* An operation is called with a gen_conf, on an adapter whose model name
\* contains "gpt-5" or does not.
ConfCall ==
    /\ conf_call.pc = "idle"
    /\ \E c \in {"Base", "LiteLLM"}, o \in ConfOps, g \in BOOLEAN, keys \in SUBSET ConfKeys :
         /\ conf_call' = [cls |-> c, op |-> o, gpt5 |-> g, supplied |-> keys,
                          pc |-> IF CleanConfCalls(c, o) = 0 THEN "request" ELSE "clean"]
         /\ gen_conf' = keys
    /\ UNCHANGED <<chatVars, embed, trace, race, rbac, db, ctx, reply, backoff, asyncVars, thinkVars, assemblyVars, bridgeVars, concurrentVars, classifyVars, passed>>

\* gen_conf = self._clean_conf(gen_conf)
CleanConf ==
    /\ conf_call.pc \in {"clean", "clean again"}
    /\ gen_conf' = clean_conf(conf_call.cls, conf_call.gpt5, gen_conf)
    /\ conf_call' = [conf_call EXCEPT !.pc =
                        IF @ = "clean" /\ CleanConfCalls(conf_call.cls, conf_call.op) = 2
                        THEN "clean again" ELSE "request"]
    /\ UNCHANGED <<chatVars, embed, trace, race, rbac, db, ctx, reply, backoff, asyncVars, thinkVars, assemblyVars, bridgeVars, concurrentVars, classifyVars, passed>>

\* The request is issued with **gen_conf.
PassConf ==
    /\ conf_call.pc = "request"
    /\ passed' = gen_conf
    /\ conf_call' = [conf_call EXCEPT !.pc = "done"]
    /\ UNCHANGED <<chatVars, embed, trace, race, rbac, db, ctx, reply, backoff, asyncVars, thinkVars, assemblyVars, bridgeVars, concurrentVars, classifyVars, gen_conf>>

NextConf ==
    \/ ConfCall
    \/ CleanConf
    \/ PassConf

SpecConf == Init /\ [][NextConf]_vars


(***************************************************************************)
(* The <think> markers of the streaming loops.  A chunk carries reasoning  *)
(* content, content, tool-call fragments, or none of them ("empty").  The  *)
(* loops: "plain" is _chat_streamly / _async_chat_stream under             *)
(* chat_streamly, "round" the loop of a tool round, "final" the loop of    *)
(* the forced final request of the streaming tool operations.              *)
(***************************************************************************)
MaxChunks == 3

ChunkKinds == {"reasoning", "content", "tool", "empty"}
StreamLoops == {"plain", "round", "final"}

\* Nothing is yielded for the chunk ("continue").
NothingYielded == <<"(nothing)">>

\* What the loop yields for a chunk, given reasoning_start.  The final loop
\* skips every chunk without content (lines 580-582; the asynchronous and
\* LiteLLM final loops skip a chunk whose content is None and yield the
\* content of the others).
YieldedFor(loop, reasoning_start, kind) ==
    CASE kind = "tool" /\ loop = "round" -> NothingYielded
      [] kind = "reasoning" /\ loop # "final" ->
            IF reasoning_start THEN <<"reasoning", "</think>">>
            ELSE <<"<think>", "reasoning", "</think>">>
      [] kind = "content" -> <<"content">>
      [] loop = "final" -> NothingYielded
      [] OTHER -> <<>>

\* reasoning_start after the chunk.
ReasoningStartAfter(loop, reasoning_start, kind) ==
    CASE loop = "final" -> reasoning_start
      [] kind = "tool" /\ loop = "round" -> reasoning_start
      [] kind = "reasoning" -> TRUE
      [] OTHER -> FALSE

\* A streaming request is answered: "reasoning_start = False", and the
\* stream is open.  Tool-call fragments come only where tools were sent.
OpenStream ==
    /\ reading.loop = "none"
    /\ \E loop \in StreamLoops, st \in SeqsUpTo(ChunkKinds, MaxChunks) :
         /\ loop = "plain" => \A k \in 1..Len(st) : st[k] # "tool"
         /\ reading' = [loop |-> loop, reasoning_start |-> FALSE]
         /\ chunks' = st
    /\ UNCHANGED <<chatVars, embed, trace, race, rbac, db, ctx, reply, backoff, asyncVars, assemblyVars, bridgeVars, concurrentVars, classifyVars, confVars,
                   seen, out>>

\* One turn of "for resp in response".
ReadChunk ==
    /\ reading.loop # "none"
    /\ chunks # <<>>
    /\ chunks' = Tail(chunks)
    /\ seen' = Append(seen, Head(chunks))
    /\ out' = Append(out, YieldedFor(reading.loop, reading.reasoning_start, Head(chunks)))
    /\ reading' = [reading EXCEPT !.reasoning_start =
                       ReasoningStartAfter(reading.loop, @, Head(chunks))]
    /\ UNCHANGED <<chatVars, embed, trace, race, rbac, db, ctx, reply, backoff, asyncVars, assemblyVars, bridgeVars, concurrentVars, classifyVars, confVars>>

NextThink ==
    \/ OpenStream
    \/ ReadChunk

SpecThink == Init /\ [][NextThink]_vars


(***************************************************************************)
(* Tool calls of the asynchronous tool operations.  The event loop runs    *)
(* one task at a time from one await to the next; "await                   *)
(* asyncio.to_thread(self.toolcall_session.tool_call, name, args)" starts  *)
(* the tool on a worker thread and suspends the task until the thread has  *)
(* the result or the exception.                                            *)
(***************************************************************************)
MaxOtherSteps == 2
MaxToolCalls == 2

AsyncToolOps == {"async_chat_with_tools", "async_chat_streamly_with_tools"}

\* The tool invoked as in the synchronous operations:
\* self.toolcall_session.tool_call(name, args).
ToolRunsOnLoop(o) == "event loop"

\* Where the tool runs: asyncio.to_thread.
ToolRunsOn(o) == "worker thread"

ToolEntriesIn(h) == Cardinality({k \in 1..Len(h) : h[k] = "tool"})

\* The operation is awaited; its first request is due.
AsyncToolStart ==
    /\ atask.pc = "idle"
    /\ \E o \in AsyncToolOps : atask' = [NoTask EXCEPT !.op = o, !.pc = "request"]
    /\ UNCHANGED <<chatVars, embed, trace, race, rbac, db, ctx, reply, backoff, assemblyVars, bridgeVars, concurrentVars, classifyVars, confVars,
                   thinkVars, tool_thread, other_task>>

\* A provider request and its response: a round's request answered with
\* text or with tool calls, or the forced final request after the rounds.
AsyncToolRequest ==
    /\ atask.pc = "request"
    /\ LET asked == [atask EXCEPT !.requests =
                        Append(@, [recorded |-> ToolEntriesIn(atask.history),
                                   processed |-> atask.processed,
                                   in_flight |-> tool_thread.state = "running"])]
       IN  IF InRoundRange(atask.round, MaxRounds)
           THEN \/ atask' = [asked EXCEPT !.pc = "done"]
                \/ \E n \in 1..MaxToolCalls :
                     atask' = [asked EXCEPT !.pc = "tools", !.pending = n]
           ELSE atask' = [asked EXCEPT !.pc = "done"]
    /\ UNCHANGED <<chatVars, embed, trace, race, rbac, db, ctx, reply, backoff, assemblyVars, bridgeVars, concurrentVars, classifyVars, confVars,
                   thinkVars, tool_thread, other_task>>

\* The next tool call of the response: json_repair.loads raises (the tool
\* entry with the error is appended at once), or the tool is started.
AsyncToolDispatch ==
    /\ atask.pc = "tools" /\ atask.pending > 0
    /\ \/ /\ atask' = [atask EXCEPT !.history = Append(@, "tool"),
                                    !.pending = @ - 1,
                                    !.processed = @ + 1,
                                    !.pc = IF atask.pending = 1 THEN "request" ELSE "tools",
                                    !.round = IF atask.pending = 1 THEN @ + 1 ELSE @]
          /\ UNCHANGED tool_thread
       \/ /\ atask' = [atask EXCEPT !.pc = "awaiting", !.processed = @ + 1]
          /\ tool_thread' = [state |-> "running",
                             on_loop |-> ToolRunsOn(atask.op) = "event loop"]
    /\ UNCHANGED <<chatVars, embed, trace, race, rbac, db, ctx, reply, backoff, assemblyVars, bridgeVars, concurrentVars, classifyVars, confVars,
                   thinkVars, other_task>>

\* The tool returns or raises.
ToolFinishes ==
    /\ tool_thread.state = "running"
    /\ \E outcome \in {"returned", "raised"} :
         tool_thread' = [tool_thread EXCEPT !.state = outcome]
    /\ UNCHANGED <<chatVars, embed, trace, race, rbac, db, ctx, reply, backoff, assemblyVars, bridgeVars, concurrentVars, classifyVars, confVars,
                   thinkVars, atask, other_task>>

\* The await returns the result (_append_history: assistant and tool entry)
\* or raises the tool's exception (the except clause appends the tool
\* entry); then the next tool call, or the next round.
AsyncToolResume ==
    /\ atask.pc = "awaiting"
    /\ tool_thread.state \in {"returned", "raised"}
    /\ atask' = [atask EXCEPT !.history = @ \o (IF tool_thread.state = "returned"
                                                 THEN <<"assistant", "tool">>
                                                 ELSE <<"tool">>),
                              !.pending = @ - 1,
                              !.pc = IF atask.pending = 1 THEN "request" ELSE "tools",
                              !.round = IF atask.pending = 1 THEN @ + 1 ELSE @]
    /\ tool_thread' = NoToolThread
    /\ UNCHANGED <<chatVars, embed, trace, race, rbac, db, ctx, reply, backoff, assemblyVars, bridgeVars, concurrentVars, classifyVars, confVars,
                   thinkVars, other_task>>

\* Another task of the loop runs up to its next await; it cannot while the
\* loop's thread is inside a tool.
OtherTaskRuns ==
    /\ other_task.steps < MaxOtherSteps
    /\ ~(tool_thread.state = "running" /\ tool_thread.on_loop)
    /\ other_task' = [steps |-> other_task.steps + 1,
                      during_tool |-> other_task.during_tool \/ tool_thread.state = "running"]
    /\ UNCHANGED <<chatVars, embed, trace, race, rbac, db, ctx, reply, backoff, assemblyVars, bridgeVars, concurrentVars, classifyVars, confVars,
                   thinkVars, atask, tool_thread>>

NextAsyncTool ==
    \/ AsyncToolStart
    \/ AsyncToolRequest
    \/ AsyncToolDispatch
    \/ ToolFinishes
    \/ AsyncToolResume
    \/ OtherTaskRuns

SpecAsyncTool == Init /\ [][NextAsyncTool]_vars


(***************************************************************************)
(* Cancellation of the asynchronous operations.  The task is cancelled     *)
(* while it awaits a provider request or the backoff sleep:                *)
(* asyncio.CancelledError, which derives from BaseException, is raised at  *)
(* the await.                                                              *)
(***************************************************************************)
AsyncOperations ==
    {x \in Operations : x[2] \in {"async_chat", "async_chat_with_tools", "async_chat_streamly",
                                  "async_chat_streamly_with_tools"}}

CancelledError == [name |-> "CancelledError", api |-> FALSE, words |-> {}]

\* "except BaseException as e"
ExceptBaseException(e) == TRUE

\* "except Exception as e" (and "except openai.APIError as e"): whether the
\* clause catches e.
ExceptException(e) == e.name # "CancelledError"

\* The request that is awaited at pc: phase, tools, stream.
AwaitedRequest ==
    CASE pc = "request" -> <<"plain", FALSE, op \in PlainStreamOps>>
      [] pc = "round" -> <<"round", TRUE, op \in ToolStreamOps>>
      [] OTHER -> <<"final", op \in ToolStreamOps /\ FinalCarriesTools(cls, op),
                    op \in ToolStreamOps>>

\* The task is cancelled while the request is awaited.
CancelDuringRequest ==
    /\ pc \in {"request", "round", "final"}
    /\ pc = "round" => InRoundRange(round, max_rounds)
    /\ Issue(AwaitedRequest[1], AwaitedRequest[2], AwaitedRequest[3], history)
    /\ IF ExceptException(CancelledError)
       THEN Catch(CancelledError)
       ELSE /\ pc' = "cancelled"
            /\ exc' = CancelledError
            /\ UNCHANGED <<prov, sleeps, result, yielded>>
    /\ UNCHANGED <<cfgVars, sideVars, attempt, round, history, hist, calls, stream, local, ans,
                   tk_count>>

\* The task is cancelled inside "await asyncio.sleep(delay)", which runs in
\* the except clause.
CancelDuringSleep ==
    /\ pc = "sleep"
    /\ pc' = "cancelled"
    /\ exc' = CancelledError
    /\ UNCHANGED <<cfgVars, sideVars, attempt, round, history, hist, calls, streamVars, ans,
                   tk_count, result, nreq, lastReq, firstMsgs, sleeps, prov>>

NextCancel ==
    \/ \E o \in AsyncOperations, n \in 0..MaxRetries, r \in 0..MaxRounds,
          system \in SystemChoices, h \in CallerHistories :
            Call(o[1], o[2], n, r, system, h)
    \/ ChatRequest
    \/ ToolRoundRequest
    \/ ExecToolCall
    \/ ExceedRounds
    \/ FinalRequest
    \/ ToolStreamRequest
    \/ ToolStreamChunk
    \/ ToolStreamEnd
    \/ ExecStreamToolCall
    \/ FinalStreamRequest
    \/ FinalStreamChunk
    \/ FinalStreamEnd
    \/ PlainStreamRequest
    \/ PlainStreamChunk
    \/ PlainStreamEnd
    \/ Wake
    \/ CancelDuringRequest
    \/ CancelDuringSleep

SpecCancel == Init /\ [][NextCancel]_vars


(***************************************************************************)
(* The backoff of the retry loop: _get_delay and the sleeps of             *)
(* _exceptions.  random.uniform(10, 150) gives some number from 10 to 150; *)
(* base_delay is the adapter's retry_interval.                             *)
(***************************************************************************)
UniformLow == 10
UniformHigh == 150
UniformSamples == {UniformLow, 11, 80, 149, UniformHigh}
BaseDelays == {0, 1, 2}

\* The delay without base_delay.
GetDelayUnscaled(base_delay, u) == u

\* _get_delay: self.base_delay * random.uniform(10, 150), for the number u
\* that random.uniform gave.
get_delay(base_delay, u) == base_delay * u

\* A call enters "for attempt in range(self.max_retries + 1)".
BackoffCall ==
    /\ backoff.pc = "idle"
    /\ \E n \in 0..MaxRetries, b \in BaseDelays :
         backoff' = [NoBackoff EXCEPT !.pc = "attempt", !.max_retries = n, !.base_delay = b]
    /\ UNCHANGED <<chatVars, embed, trace, race, rbac, db, ctx, reply, assemblyVars, bridgeVars, concurrentVars, classifyVars, confVars,
                   thinkVars, asyncVars>>

\* The attempt succeeds: the operation returns its answer.
AttemptSucceeds ==
    /\ backoff.pc = "attempt"
    /\ backoff' = [backoff EXCEPT !.pc = "done", !.attempts = @ + 1, !.returned = "answer"]
    /\ UNCHANGED <<chatVars, embed, trace, race, rbac, db, ctx, reply, assemblyVars, bridgeVars, concurrentVars, classifyVars, confVars,
                   thinkVars, asyncVars>>

\* The attempt fails with e: _exceptions(e, attempt) sleeps for _get_delay()
\* if the code is retried, and gives the error string otherwise.
AttemptFails ==
    /\ backoff.pc = "attempt"
    /\ \E e \in Exceptions :
         LET error_code == ErrorCodeAt(e, backoff.attempt, backoff.max_retries)
             failed == [backoff EXCEPT !.attempts = @ + 1, !.e = e,
                                       !.retryable_only =
                                            @ /\ classify_error(e) \in retryable_errors]
         IN  IF should_retry(error_code)
             THEN \E u \in UniformSamples :
                    backoff' = [failed EXCEPT !.pc = "sleep",
                                              !.delays = Append(@, get_delay(backoff.base_delay, u))]
             ELSE backoff' = [failed EXCEPT !.pc = "done", !.returned = error_code]
    /\ UNCHANGED <<chatVars, embed, trace, race, rbac, db, ctx, reply, assemblyVars, bridgeVars, concurrentVars, classifyVars, confVars,
                   thinkVars, asyncVars>>

\* time.sleep(delay) returns; the loop goes on with the next attempt.
SleepEnds ==
    /\ backoff.pc = "sleep"
    /\ backoff' = [backoff EXCEPT !.pc = "attempt", !.attempt = @ + 1]
    /\ UNCHANGED <<chatVars, embed, trace, race, rbac, db, ctx, reply, assemblyVars, bridgeVars, concurrentVars, classifyVars, confVars,
                   thinkVars, asyncVars>>

NextBackoff ==
    \/ BackoffCall
    \/ AttemptSucceeds
    \/ AttemptFails
    \/ SleepEnds

SpecBackoff == Init /\ [][NextBackoff]_vars


(***************************************************************************)
(* _chat / _async_chat and the attempt of LiteLLMBase.async_chat: what a   *)
(* non-streaming chat returns for the provider's response.  A text is a    *)
(* sequence of characters ("zh": a Chinese character); a length           *)
(* notification is one element of it.                                      *)
(***************************************************************************)
MaxContent == 2
Characters == {" ", "a", "zh"}
Texts(n) == UNION {[1..k -> Characters] : k \in 0..n}
FinishReasons == {"stop", "length"}
Usages == {3, 5}

LENGTH_NOTIFICATION_CN == "LENGTH_NOTIFICATION_CN"
LENGTH_NOTIFICATION_EN == "LENGTH_NOTIFICATION_EN"
EMPTY_RESPONSE == "**ERROR**: Empty response from reasoning model"

RECURSIVE lstrip(_)
lstrip(s) == IF s # <<>> /\ Head(s) = " " THEN lstrip(Tail(s)) ELSE s

RECURSIVE rstrip(_)
rstrip(s) == IF s # <<>> /\ s[Len(s)] = " " THEN rstrip(SubSeq(s, 1, Len(s) - 1)) ELSE s

\* The text as the provider gave it.
KeepWhitespace(s) == s

\* str.strip().
strip(s) == rstrip(lstrip(s))

\* rag.nlp.is_chinese: the dominant script of the text is Chinese.
is_chinese(text) == 2 * Cardinality({i \in 1..Len(text) : text[i] = "zh"}) > Len(text)

\* _length_stop.
length_stop(text) ==
    text \o <<IF is_chinese(text) THEN LENGTH_NOTIFICATION_CN ELSE LENGTH_NOTIFICATION_EN>>

\* The statements after the request: ("", 0) without content, else the
\* stripped content, with the notification on finish_reason "length", and
\* total_token_count_from_response(response).
chat_returns(content, finish, usage) ==
    IF content = <<>>
    THEN [text |-> <<>>, tokens |-> 0]
    ELSE [text |-> IF finish = "length" THEN length_stop(strip(content)) ELSE strip(content),
          tokens |-> usage]

\* Base._chat and Base._async_chat read a stream when the model name has
\* "qwq"; LiteLLMBase has no such branch.
ReadsStream(c, qwq) == c = "Base" /\ qwq

\* The chunks of a streamed response: the delta's content, the finish
\* reason, the reported total (0: none).
StreamedChunks ==
    [content : {<<>>, <<" ">>, <<"a">>, <<"<think>", "a">>, <<"a", "</think>">>},
     finish : {"", "length"}, usage : {0, 3}]

\* What _chat_streamly yields for a chunk under with_reasoning=False.
StreamlyYields(resp) ==
    [delta |-> IF resp.finish = "length" THEN length_stop(resp.content) ELSE resp.content,
     tol |-> IF resp.usage # 0 THEN resp.usage ELSE Len(resp.content)]

\* The loop of the "qwq" branch over the rest of the stream and its return.
RECURSIVE qwq_returns(_, _, _)
qwq_returns(rest, final_ans, tol_token) ==
    IF rest = <<>>
    THEN [text |-> IF strip(final_ans) = <<>> THEN <<EMPTY_RESPONSE>> ELSE strip(final_ans),
          tokens |-> tol_token]
    ELSE LET y == StreamlyYields(Head(rest))
         IN  IF y.delta # <<>> /\ (Head(y.delta) = "<think>" \/ y.delta[Len(y.delta)] = "</think>")
             THEN qwq_returns(Tail(rest), final_ans, tol_token)
             ELSE qwq_returns(Tail(rest), final_ans \o y.delta, y.tol)

\* The content, finish reason and reported total of a streamed response.
RECURSIVE StreamedContent(_)
StreamedContent(rest) ==
    IF rest = <<>> THEN <<>> ELSE Head(rest).content \o StreamedContent(Tail(rest))

RECURSIVE StreamedUsage(_)
StreamedUsage(rest) ==
    IF rest = <<>> THEN 0
    ELSE IF rest[Len(rest)].usage # 0 THEN rest[Len(rest)].usage
    ELSE StreamedUsage(SubSeq(rest, 1, Len(rest) - 1))

\* chat / async_chat is called and reaches the request of an attempt.
ReplyCall ==
    /\ reply.pc = "idle"
    /\ \E c \in {"Base", "LiteLLM"}, o \in PlainOps, qwq \in BOOLEAN :
         reply' = [NoReply EXCEPT !.pc = "request", !.cls = c, !.op = o, !.qwq = qwq]
    /\ UNCHANGED <<chatVars, embed, trace, race, rbac, db, ctx, assemblyVars, bridgeVars, concurrentVars, classifyVars, confVars,
                   thinkVars, asyncVars, backoff>>

\* The completion request answers and the call returns.
PlainCompletion ==
    /\ reply.pc = "request" /\ ~ReadsStream(reply.cls, reply.qwq)
    /\ \E content \in Texts(MaxContent), finish \in FinishReasons, usage \in Usages :
         LET r == chat_returns(content, finish, usage)
         IN  reply' = [reply EXCEPT !.pc = "done", !.content = content, !.finish = finish,
                                    !.usage = usage, !.text = r.text, !.tokens = r.tokens]
    /\ UNCHANGED <<chatVars, embed, trace, race, rbac, db, ctx, assemblyVars, bridgeVars, concurrentVars, classifyVars, confVars,
                   thinkVars, asyncVars, backoff>>

\* The "qwq" branch: the stream is read to its end and the call returns.
StreamedCompletion ==
    /\ reply.pc = "request" /\ ReadsStream(reply.cls, reply.qwq)
    /\ \E n \in 1..MaxContent : \E resps \in [1..n -> StreamedChunks] :
         LET r == qwq_returns(resps, <<>>, 0)
         IN  reply' = [reply EXCEPT !.pc = "done", !.chunks = resps,
                                    !.content = StreamedContent(resps),
                                    !.finish = resps[n].finish,
                                    !.usage = StreamedUsage(resps),
                                    !.text = r.text, !.tokens = r.tokens]
    /\ UNCHANGED <<chatVars, embed, trace, race, rbac, db, ctx, assemblyVars, bridgeVars, concurrentVars, classifyVars, confVars,
                   thinkVars, asyncVars, backoff>>

NextReply ==
    \/ ReplyCall
    \/ PlainCompletion
    \/ StreamedCompletion

SpecReply == Init /\ [][NextReply]_vars


(***************************************************************************)
(* _calculate_dynamic_ctx.  A message's content is pad ASCII characters    *)
(* followed by the characters of chars ("zh": a non-ASCII character).      *)
(***************************************************************************)
MaxMessages == 2
BaseWindow == 8192
role_tokens == 4
Paddings == {0, 6820, 13650}
Tails == {<<>>, <<"a">>, <<"zh">>, <<"a", "zh">>}
CtxMessages == [pad : Paddings, chars : Tails]

\* count_tokens: 1 for a character with ord(char) < 128, else 2.
RECURSIVE count_chars(_)
count_chars(text) ==
    IF text = <<>> THEN 0
    ELSE (IF Head(text) = "zh" THEN 2 ELSE 1) + count_chars(Tail(text))

count_tokens(content) == content.pad + count_chars(content.chars)

\* The loop over the messages: content tokens plus role_tokens each.
RECURSIVE total_tokens_of(_)
total_tokens_of(msgs) ==
    IF msgs = <<>> THEN 0
    ELSE count_tokens(Head(msgs)) + role_tokens + total_tokens_of(Tail(msgs))

\* int(total_tokens * 1.2): the float product of an integer below 2^31 by
\* 1.2 truncates to the integer part of 6 * total_tokens / 5.
with_buffer(total_tokens) == (6 * total_tokens) \div 5

\* The window: 8192 up to 8192, else (// 8192 + 1) * 8192.
ctx_size_for(total_tokens_with_buffer) ==
    IF total_tokens_with_buffer =< BaseWindow
    THEN BaseWindow
    ELSE ((total_tokens_with_buffer \div BaseWindow) + 1) * BaseWindow

calculate_dynamic_ctx(msgs) == ctx_size_for(with_buffer(total_tokens_of(msgs)))

\* The caller builds a history.
CtxAddMessage ==
    /\ ctx.pc \in {"idle", "building"}
    /\ Len(ctx.history) < MaxMessages
    /\ \E c \in {"Base", "LiteLLM"}, m \in CtxMessages :
         /\ ctx.pc = "building" => c = ctx.cls
         /\ ctx' = [ctx EXCEPT !.pc = "building", !.cls = c, !.history = Append(@, m)]
    /\ UNCHANGED <<chatVars, embed, trace, race, rbac, db, assemblyVars, bridgeVars, concurrentVars, classifyVars, confVars, thinkVars, asyncVars, backoff, reply>>

\* _calculate_dynamic_ctx(history) returns.
CalculateDynamicCtx ==
    /\ ctx.pc \in {"idle", "building"}
    /\ \E c \in {"Base", "LiteLLM"} :
         /\ ctx.pc = "building" => c = ctx.cls
         /\ ctx' = [ctx EXCEPT !.pc = "done", !.cls = c,
                               !.ctx_size = calculate_dynamic_ctx(ctx.history)]
    /\ UNCHANGED <<chatVars, embed, trace, race, rbac, db, assemblyVars, bridgeVars, concurrentVars, classifyVars, confVars, thinkVars, asyncVars, backoff, reply>>

NextCtx ==
    \/ CtxAddMessage
    \/ CalculateDynamicCtx

SpecCtx == Init /\ [][NextCtx]_vars


(***************************************************************************)
(* Role-based access control: the tables of rbac_service.py (a group's id  *)
(* is its position in db.groups; a table is the set of its rows, a row     *)
(* being told from another by its fields), the services, the permission    *)
(* queries, the decorators of rbac.py and the group endpoints of           *)
(* rbac_app.py.  db.ops counts the writes.                                 *)
(***************************************************************************)
MaxDbOps == 4
VALID_STATUS == "1"
INVALID_STATUS == "0"
DEFAULT_ADMIN_GROUP_NAME == "Administrators"
DEFAULT_USER_GROUP_NAME == "Users"
PermissionTypes == {"read", "update", "delete", "create"}
UserIds == {"u1"}
KbIds == {"kb1", "kb2"}
GroupIds == 1..3
GroupNames == {DEFAULT_ADMIN_GROUP_NAME, DEFAULT_USER_GROUP_NAME, "staff"}
Grants == {{"read"}, {"read", "update"}}

Wrote(d) == [d EXCEPT !.ops = @ + 1]
GroupOf(group_id) == db.groups[group_id]
Created == 1..Len(db.groups)

\* UserGroupService.get_by_name: the ids of the valid groups of that name.
get_by_name(d, name) ==
    {g \in 1..Len(d.groups) : d.groups[g].name = name /\ d.groups[g].status = VALID_STATUS}

\* UserGroupService.create_group.
create_group(d, name, is_admin) ==
    [d EXCEPT !.groups = Append(@, [name |-> name, is_admin |-> is_admin,
                                    status |-> VALID_STATUS])]

\* UserGroupService.init_default_groups.
init_default_groups(d) ==
    LET a == IF get_by_name(d, DEFAULT_ADMIN_GROUP_NAME) = {}
             THEN create_group(d, DEFAULT_ADMIN_GROUP_NAME, TRUE) ELSE d
    IN  IF get_by_name(a, DEFAULT_USER_GROUP_NAME) = {}
        THEN create_group(a, DEFAULT_USER_GROUP_NAME, FALSE) ELSE a

\* The groups of the user's valid memberships, whatever their status.
GetUserGroupsAnyStatus(user_id) ==
    {g \in Created : \E m \in db.members :
        m.user_id = user_id /\ m.group_id = g /\ m.status = VALID_STATUS}

\* UserGroupMemberService.get_user_groups.
get_user_groups(user_id) ==
    LET group_ids == {m.group_id : m \in {x \in db.members :
                          x.user_id = user_id /\ x.status = VALID_STATUS}}
    IN  {g \in Created : g \in group_ids /\ GroupOf(g).status = VALID_STATUS}

\* UserGroupMemberService.is_user_admin.
is_user_admin(user_id) == \E g \in get_user_groups(user_id) : GroupOf(g).is_admin

\* PermissionService.get_user_kb_permissions: the permissions set to True.
get_user_kb_permissions(user_id, kb_id) ==
    IF is_user_admin(user_id) THEN PermissionTypes
    ELSE LET group_ids == get_user_groups(user_id)
             permissions == {p \in db.perms : /\ p.group_id \in group_ids
                                              /\ p.kb_id = kb_id
                                              /\ p.status = VALID_STATUS}
         IN  UNION {p.can : p \in permissions}

\* PermissionService.get_accessible_kb_ids for a user who is not an admin.
get_accessible_kb_ids(user_id, permission_type) ==
    LET group_ids == get_user_groups(user_id)
    IN  {p.kb_id : p \in {x \in db.perms : /\ x.group_id \in group_ids
                                           /\ permission_type \in x.can
                                           /\ x.status = VALID_STATUS}}

\* PermissionService.can_access_dialog_kbs.
can_access_dialog_kbs(user_id, kb_ids) ==
    \/ kb_ids = {}
    \/ is_user_admin(user_id)
    \/ kb_ids \subseteq get_accessible_kb_ids(user_id, "read")

CanWrite == db.ops < MaxDbOps

\* init_default_groups at start-up.
InitDefaultGroups ==
    /\ CanWrite
    /\ db' = Wrote(init_default_groups(db))
    /\ rbac' = NoRbac
    /\ UNCHANGED <<chatVars, embed, trace, race, assemblyVars, bridgeVars, concurrentVars, classifyVars, confVars, thinkVars, asyncVars, backoff, reply, ctx>>

\* UserGroupService.create_group, called directly.
CreateGroup ==
    /\ CanWrite /\ Len(db.groups) < Cardinality(GroupIds)
    /\ \E is_admin \in BOOLEAN : db' = Wrote(create_group(db, "staff", is_admin))
    /\ rbac' = NoRbac
    /\ UNCHANGED <<chatVars, embed, trace, race, assemblyVars, bridgeVars, concurrentVars, classifyVars, confVars, thinkVars, asyncVars, backoff, reply, ctx>>

\* UserGroupService.delete_group, called directly: the soft delete.
DeleteGroup ==
    /\ CanWrite
    /\ \E g \in Created : db' = Wrote([db EXCEPT !.groups[g].status = INVALID_STATUS])
    /\ rbac' = NoRbac
    /\ UNCHANGED <<chatVars, embed, trace, race, assemblyVars, bridgeVars, concurrentVars, classifyVars, confVars, thinkVars, asyncVars, backoff, reply, ctx>>

\* UserGroupMemberService.add_user_to_group.
AddUserToGroup ==
    /\ CanWrite
    /\ \E u \in UserIds, g \in Created :
         LET row == [user_id |-> u, group_id |-> g, status |-> VALID_STATUS]
         IN  db' = Wrote(IF row \in db.members THEN db
                         ELSE [db EXCEPT !.members = @ \cup {row}])
    /\ rbac' = NoRbac
    /\ UNCHANGED <<chatVars, embed, trace, race, assemblyVars, bridgeVars, concurrentVars, classifyVars, confVars, thinkVars, asyncVars, backoff, reply, ctx>>

\* UserGroupMemberService.remove_user_from_group: every row of the pair.
RemoveUserFromGroup ==
    /\ CanWrite
    /\ \E u \in UserIds, g \in Created :
         db' = Wrote([db EXCEPT !.members =
                        {IF m.user_id = u /\ m.group_id = g
                         THEN [m EXCEPT !.status = INVALID_STATUS] ELSE m : m \in @}])
    /\ rbac' = NoRbac
    /\ UNCHANGED <<chatVars, embed, trace, race, assemblyVars, bridgeVars, concurrentVars, classifyVars, confVars, thinkVars, asyncVars, backoff, reply, ctx>>

\* GroupKnowledgebasePermissionService.set_permission: the valid row of the
\* pair is updated, or a row is created.
SetPermission ==
    /\ CanWrite
    /\ \E g \in Created, kb \in KbIds, can \in Grants :
         LET existing == {p \in db.perms : /\ p.group_id = g /\ p.kb_id = kb
                                           /\ p.status = VALID_STATUS}
             row == [group_id |-> g, kb_id |-> kb, can |-> can, status |-> VALID_STATUS]
         IN  db' = Wrote([db EXCEPT !.perms = (@ \ existing) \cup {row}])
    /\ rbac' = NoRbac
    /\ UNCHANGED <<chatVars, embed, trace, race, assemblyVars, bridgeVars, concurrentVars, classifyVars, confVars, thinkVars, asyncVars, backoff, reply, ctx>>

\* GroupKnowledgebasePermissionService.remove_permission.
RemovePermission ==
    /\ CanWrite
    /\ \E p \in db.perms :
         db' = Wrote([db EXCEPT !.perms = (@ \ {p}) \cup {[p EXCEPT !.status = INVALID_STATUS]}])
    /\ rbac' = NoRbac
    /\ UNCHANGED <<chatVars, embed, trace, race, assemblyVars, bridgeVars, concurrentVars, classifyVars, confVars, thinkVars, asyncVars, backoff, reply, ctx>>

\* PermissionService.get_user_kb_permissions(user_id, kb_id) is asked.
GetUserKbPermissions ==
    /\ \E u \in UserIds, kb \in KbIds :
         rbac' = [NoRbac EXCEPT !.kind = "permissions", !.user = u, !.kb_ids = {kb},
                                !.granted = get_user_kb_permissions(u, kb),
                                !.is_admin = is_user_admin(u)]
    /\ UNCHANGED <<chatVars, embed, trace, race, db, assemblyVars, bridgeVars, concurrentVars, classifyVars, confVars, thinkVars, asyncVars, backoff, reply, ctx>>

\* A POST request to an endpoint under require_kb_list_permission
\* (permission_type), with kb_ids in its body and current_user logged in.
RequireKbListPermission ==
    /\ \E u \in UserIds, permission_type \in PermissionTypes, kb_ids \in SUBSET KbIds :
         LET allowed == kb_ids = {} \/ can_access_dialog_kbs(u, kb_ids)
         IN  rbac' = [NoRbac EXCEPT !.kind = "guarded", !.user = u, !.kb_ids = kb_ids,
                                    !.permission_type = permission_type,
                                    !.code = IF allowed THEN "handler" ELSE "FORBIDDEN",
                                    !.handler_ran = allowed]
    /\ UNCHANGED <<chatVars, embed, trace, race, db, assemblyVars, bridgeVars, concurrentVars, classifyVars, confVars, thinkVars, asyncVars, backoff, reply, ctx>>

NextRbac ==
    \/ InitDefaultGroups
    \/ CreateGroup
    \/ DeleteGroup
    \/ AddUserToGroup
    \/ RemoveUserFromGroup
    \/ SetPermission
    \/ RemovePermission
    \/ GetUserKbPermissions
    \/ RequireKbListPermission

SpecRbac == Init /\ [][NextRbac]_vars


(***************************************************************************)
(* The group endpoints of rbac_app.py, each under require_admin with       *)
(* current_user logged in.  get_by_id finds a group whatever its status.   *)
(***************************************************************************)
Answer(u, g, code) == [NoRbac EXCEPT !.kind = "api", !.user = u, !.group_id = g, !.code = code]

\* require_admin: the answer that keeps the endpoint from running, if any.
require_admin(u) == IF is_user_admin(u) THEN "" ELSE "FORBIDDEN"

\* POST /group/create.
ApiCreateGroup ==
    /\ CanWrite /\ Len(db.groups) < Cardinality(GroupIds)
    /\ \E u \in UserIds, name \in GroupNames, is_admin \in BOOLEAN :
         IF require_admin(u) # ""
         THEN rbac' = Answer(u, 0, require_admin(u)) /\ UNCHANGED db
         ELSE IF get_by_name(db, name) # {}
         THEN rbac' = Answer(u, 0, "DATA_ERROR") /\ UNCHANGED db
         ELSE /\ db' = Wrote(create_group(db, name, is_admin))
              /\ rbac' = Answer(u, Len(db.groups) + 1, "SUCCESS")
    /\ UNCHANGED <<chatVars, embed, trace, race, assemblyVars, bridgeVars, concurrentVars, classifyVars, confVars, thinkVars, asyncVars, backoff, reply, ctx>>

\* PUT /group/<group_id> with a name.
ApiUpdateGroup ==
    /\ CanWrite
    /\ \E u \in UserIds, g \in GroupIds, name \in GroupNames :
         IF require_admin(u) # ""
         THEN rbac' = Answer(u, g, require_admin(u)) /\ UNCHANGED db
         ELSE IF g \notin Created \/ get_by_name(db, name) \ {g} # {}
         THEN rbac' = Answer(u, g, "DATA_ERROR") /\ UNCHANGED db
         ELSE /\ db' = Wrote([db EXCEPT !.groups[g].name = name])
              /\ rbac' = Answer(u, g, "SUCCESS")
    /\ UNCHANGED <<chatVars, embed, trace, race, assemblyVars, bridgeVars, concurrentVars, classifyVars, confVars, thinkVars, asyncVars, backoff, reply, ctx>>

\* DELETE /group/<group_id>.
ApiDeleteGroup ==
    /\ CanWrite
    /\ \E u \in UserIds, g \in GroupIds :
         IF require_admin(u) # ""
         THEN rbac' = Answer(u, g, require_admin(u)) /\ UNCHANGED db
         ELSE IF g \notin Created
         THEN rbac' = Answer(u, g, "DATA_ERROR") /\ UNCHANGED db
         ELSE IF \/ GroupOf(g).is_admin
                 \/ GroupOf(g).name \in {DEFAULT_ADMIN_GROUP_NAME, DEFAULT_USER_GROUP_NAME}
         THEN rbac' = Answer(u, g, "FORBIDDEN") /\ UNCHANGED db
         ELSE /\ db' = Wrote([db EXCEPT !.groups[g].status = INVALID_STATUS])
              /\ rbac' = Answer(u, g, "SUCCESS")
    /\ UNCHANGED <<chatVars, embed, trace, race, assemblyVars, bridgeVars, concurrentVars, classifyVars, confVars, thinkVars, asyncVars, backoff, reply, ctx>>

NextGroupApi ==
    \/ InitDefaultGroups
    \/ AddUserToGroup
    \/ ApiCreateGroup
    \/ ApiUpdateGroup
    \/ ApiDeleteGroup

SpecGroupApi == Init /\ [][NextGroupApi]_vars


(***************************************************************************)
(* Threads calling operations with the same history list object.  The      *)
(* test "system and history and history[0].get('role') != 'system'" and    *)
(* the call history.insert(0, ...) are separate steps of a thread; each is *)
(* atomic under the interpreter lock.                                      *)
(***************************************************************************)
SharedHistories == {<<>>, <<UserMsg>>, <<OldSystemMsg, UserMsg>>, <<UserMsg, UserMsg>>}
ThreadOps == {"chat", "chat_streamly_with_tools"}

\* The test of the if statement.
SystemNeeded(system, h) == system /\ h # <<>> /\ Head(h).role # "system"

\* The threads are started on one list.
ThreadsStart ==
    /\ ~race.started
    /\ \E h \in SharedHistories, ops \in [TopLevelCalls -> ThreadOps],
          systems \in [TopLevelCalls -> BOOLEAN] :
         race' = [history |-> h, initial |-> h, started |-> TRUE,
                  threads |-> [t \in TopLevelCalls |->
                                 [pc |-> "test", op |-> ops[t], system |-> systems[t],
                                  inserts |-> FALSE]]]
    /\ UNCHANGED <<chatVars, embed, trace, assemblyVars, bridgeVars, concurrentVars, classifyVars, confVars, thinkVars, asyncVars, backoff, reply, ctx, db, rbac>>

\* A thread evaluates the test on the list as it is now.
ThreadTests(t) ==
    /\ race.threads[t].pc = "test"
    /\ LET needed == SystemNeeded(race.threads[t].system, race.history)
       IN  race' = [race EXCEPT !.threads[t].pc = IF needed THEN "insert" ELSE "done",
                                !.threads[t].inserts = needed]
    /\ UNCHANGED <<chatVars, embed, trace, assemblyVars, bridgeVars, concurrentVars, classifyVars, confVars, thinkVars, asyncVars, backoff, reply, ctx, db, rbac>>

\* The thread runs history.insert(0, {"role": "system", "content": system}).
ThreadInserts(t) ==
    /\ race.threads[t].pc = "insert"
    /\ race' = [race EXCEPT !.history = <<NewSystemMsg>> \o @, !.threads[t].pc = "done"]
    /\ UNCHANGED <<chatVars, embed, trace, assemblyVars, bridgeVars, concurrentVars, classifyVars, confVars, thinkVars, asyncVars, backoff, reply, ctx, db, rbac>>

NextRace ==
    \/ ThreadsStart
    \/ \E t \in TopLevelCalls : ThreadTests(t)
    \/ \E t \in TopLevelCalls : ThreadInserts(t)

SpecRace == Init /\ [][NextRace]_vars


(***************************************************************************)
(* The tool-call loop of chat_streamly_with_tools as its consumer sees it: *)
(* the generator's yields and the tool invocations, in the order they      *)
(* happen.  A step of the generator runs from one resumption to its next   *)
(* yield.                                                                  *)
(***************************************************************************)
TraceOperations == {x \in Operations : x[2] \in ToolStreamOps}

\* final_tool_calls of one round: the indexes in order of first arrival
\* (the dict's insertion order), and what happens to each call.
Arrivals == {<<0>>, <<0, 1>>, <<1, 0>>}
FinalToolCalls ==
    UNION {{[k \in 1..Len(a) |-> [index |-> a[k], outcome |-> o[k]]] :
              o \in [1..Len(a) -> ToolOutcomes]} : a \in Arrivals}

Event(kind, rnd, index) == [kind |-> kind, round |-> rnd, index |-> index]
NoIndex == 0 - 1
YieldKinds == {"begin", "result", "failure", "text", "tokens"}

\* The body of the try statement for one tool call, with the trace the
\* invocation would come before.
TryBodyInvokesFirst(rnd, tool_call) ==
    IF tool_call.outcome = "bad_args"
    THEN <<Event("failure", rnd, tool_call.index)>>
    ELSE <<Event("invoke", rnd, tool_call.index),
           Event("begin", rnd, tool_call.index),
           Event(IF tool_call.outcome = "ok" THEN "result" ELSE "failure",
                 rnd, tool_call.index)>>

\* The body of the try statement for one tool call: json_repair.loads, the
\* yield of "Begin to call...", toolcall_session.tool_call, the yield of
\* the result; the except clause yields str(e) in place of what was left.
TryBody(rnd, tool_call) ==
    IF tool_call.outcome = "bad_args"
    THEN <<Event("failure", rnd, tool_call.index)>>
    ELSE <<Event("begin", rnd, tool_call.index),
           Event("invoke", rnd, tool_call.index),
           Event(IF tool_call.outcome = "ok" THEN "result" ELSE "failure",
                 rnd, tool_call.index)>>

\* for tool_call in final_tool_calls.values(): ...
RECURSIVE ForEachToolCall(_, _)
ForEachToolCall(rnd, tool_calls) ==
    IF tool_calls = <<>> THEN <<>>
    ELSE TryBody(rnd, Head(tool_calls)) \o ForEachToolCall(rnd, Tail(tool_calls))

\* The number of events up to and including the next yield.
RECURSIVE ThroughNextYield(_)
ThroughNextYield(events) ==
    IF events = <<>> THEN 0
    ELSE IF Head(events).kind \in YieldKinds THEN 1
    ELSE 1 + ThroughNextYield(Tail(events))

\* The consumer starts the generator; the first round's request follows.
TraceStart ==
    /\ trace.pc = "idle"
    /\ \E x \in TraceOperations, r \in 0..MaxRounds :
         trace' = [NoTrace EXCEPT !.pc = "request", !.cls = x[1], !.op = x[2],
                                  !.max_rounds = r]
    /\ UNCHANGED <<chatVars, embed, assemblyVars, bridgeVars, concurrentVars, classifyVars, confVars, thinkVars, asyncVars, backoff, reply, ctx, db, rbac, race>>

\* The round's stream carried tool calls and no content: the loop over
\* final_tool_calls starts and runs to its first yield.
TraceRoundWithToolCalls ==
    /\ trace.pc = "request"
    /\ \E tcs \in FinalToolCalls :
         LET body == ForEachToolCall(trace.round, tcs)
             n == ThroughNextYield(body)
         IN  trace' = [trace EXCEPT
                 !.pc = "tools",
                 !.rounds = Append(@, tcs),
                 !.events = (@ \o <<Event("request", trace.round, NoIndex)>>)
                                \o SubSeq(body, 1, n),
                 !.pending = SubSeq(body, n + 1, Len(body))]
    /\ UNCHANGED <<chatVars, embed, assemblyVars, bridgeVars, concurrentVars, classifyVars, confVars, thinkVars, asyncVars, backoff, reply, ctx, db, rbac, race>>

\* The round's stream carried content: it is yielded, then total_tokens,
\* and the generator returns.
TraceRoundWithAnswer ==
    /\ trace.pc = "request"
    /\ trace' = [trace EXCEPT
           !.pc = "done",
           !.rounds = Append(@, <<>>),
           !.events = @ \o <<Event("request", trace.round, NoIndex),
                             Event("text", trace.round, NoIndex),
                             Event("tokens", trace.round, NoIndex)>>]
    /\ UNCHANGED <<chatVars, embed, assemblyVars, bridgeVars, concurrentVars, classifyVars, confVars, thinkVars, asyncVars, backoff, reply, ctx, db, rbac, race>>

\* The consumer resumes the generator inside the loop: it runs to the next
\* yield.
TraceResume ==
    /\ trace.pc = "tools"
    /\ trace.pending # <<>>
    /\ LET n == ThroughNextYield(trace.pending)
       IN  trace' = [trace EXCEPT
               !.events = @ \o SubSeq(trace.pending, 1, n),
               !.pending = SubSeq(trace.pending, n + 1, Len(trace.pending))]
    /\ UNCHANGED <<chatVars, embed, assemblyVars, bridgeVars, concurrentVars, classifyVars, confVars, thinkVars, asyncVars, backoff, reply, ctx, db, rbac, race>>

\* Resumed after the last trace of the round: the next iteration of
\* "for _ in range(self.max_rounds + 1)", or the end of that loop.
TraceNextRound ==
    /\ trace.pc = "tools"
    /\ trace.pending = <<>>
    /\ trace' = [trace EXCEPT
           !.round = @ + 1,
           !.pc = IF trace.round + 1 =< trace.max_rounds THEN "request" ELSE "exceed"]
    /\ UNCHANGED <<chatVars, embed, assemblyVars, bridgeVars, concurrentVars, classifyVars, confVars, thinkVars, asyncVars, backoff, reply, ctx, db, rbac, race>>

\* "Exceed max rounds": the last request without tools, its content and
\* total_tokens.
TraceExceedMaxRounds ==
    /\ trace.pc = "exceed"
    /\ trace' = [trace EXCEPT
           !.pc = "done",
           !.events = @ \o <<Event("request", trace.round, NoIndex),
                             Event("text", trace.round, NoIndex),
                             Event("tokens", trace.round, NoIndex)>>]
    /\ UNCHANGED <<chatVars, embed, assemblyVars, bridgeVars, concurrentVars, classifyVars, confVars, thinkVars, asyncVars, backoff, reply, ctx, db, rbac, race>>

NextTrace ==
    \/ TraceStart
    \/ TraceRoundWithToolCalls
    \/ TraceRoundWithAnswer
    \/ TraceResume
    \/ TraceNextRound
    \/ TraceExceedMaxRounds

SpecTrace == Init /\ [][NextTrace]_vars


(***************************************************************************)
(* Threads constructing BuiltinEmbed.  The class attributes _model,        *)
(* _model_name and _max_tokens are shared; each statement of __init__ is   *)
(* a step of its thread.                                                   *)
(***************************************************************************)
EmbeddingModels == {"BAAI/bge-m3", "custom/model"}

\* BuiltinEmbed.MAX_TOKENS.get(name, 500)
MAX_TOKENS(name) ==
    CASE name = "Qwen/Qwen3-Embedding-0.6B" -> 30000
      [] name = "BAAI/bge-m3" -> 8000
      [] name = "BAAI/bge-small-en-v1.5" -> 500
      [] OTHER -> DefaultMaxTokens

\* The threads call BuiltinEmbed(key, model_name) while _model is None.
EmbedStart ==
    /\ ~embed.started
    /\ \E tei \in BOOLEAN, mdl \in EmbeddingModels :
         embed' = [NoEmbed EXCEPT !.started = TRUE, !.tei = tei, !.EMBEDDING_MDL = mdl,
                                  !.threads = [t \in TopLevelCalls |->
                                                 [@[t] EXCEPT !.pc = "check"]]]
    /\ UNCHANGED <<chatVars, assemblyVars, bridgeVars, concurrentVars, classifyVars, confVars, thinkVars, asyncVars, backoff, reply, ctx, db, rbac, race, trace>>

\* if not BuiltinEmbed._model and "tei-" in os.getenv("COMPOSE_PROFILES", "")
EmbedCheck(t) ==
    /\ embed.threads[t].pc = "check"
    /\ embed' = [embed EXCEPT !.threads[t].pc =
                     IF embed.model = 0 /\ embed.tei THEN "acquire" ELSE "read_model"]
    /\ UNCHANGED <<chatVars, assemblyVars, bridgeVars, concurrentVars, classifyVars, confVars, thinkVars, asyncVars, backoff, reply, ctx, db, rbac, race, trace>>

\* with BuiltinEmbed._model_lock: the thread waits until the lock is free.
EmbedAcquire(t) ==
    /\ embed.threads[t].pc = "acquire"
    /\ embed.lock = 0
    /\ embed' = [embed EXCEPT !.lock = t, !.threads[t].pc = "set_model_name"]
    /\ UNCHANGED <<chatVars, assemblyVars, bridgeVars, concurrentVars, classifyVars, confVars, thinkVars, asyncVars, backoff, reply, ctx, db, rbac, race, trace>>

\* BuiltinEmbed._model_name = settings.EMBEDDING_MDL
EmbedSetModelName(t) ==
    /\ embed.threads[t].pc = "set_model_name"
    /\ embed' = [embed EXCEPT !.model_name = embed.EMBEDDING_MDL,
                              !.threads[t].pc = "set_max_tokens"]
    /\ UNCHANGED <<chatVars, assemblyVars, bridgeVars, concurrentVars, classifyVars, confVars, thinkVars, asyncVars, backoff, reply, ctx, db, rbac, race, trace>>

\* BuiltinEmbed._max_tokens = BuiltinEmbed.MAX_TOKENS.get(settings.EMBEDDING_MDL, 500)
EmbedSetMaxTokens(t) ==
    /\ embed.threads[t].pc = "set_max_tokens"
    /\ embed' = [embed EXCEPT !.max_tokens = MAX_TOKENS(embed.EMBEDDING_MDL),
                              !.threads[t].pc = "construct"]
    /\ UNCHANGED <<chatVars, assemblyVars, bridgeVars, concurrentVars, classifyVars, confVars, thinkVars, asyncVars, backoff, reply, ctx, db, rbac, race, trace>>

\* BuiltinEmbed._model = HuggingFaceEmbed(...): a new object each time the
\* statement runs; the with block ends and releases the lock.
EmbedConstruct(t) ==
    /\ embed.threads[t].pc = "construct"
    /\ embed' = [embed EXCEPT !.constructed = @ + 1, !.model = embed.constructed + 1,
                              !.lock = 0, !.threads[t].pc = "read_model"]
    /\ UNCHANGED <<chatVars, assemblyVars, bridgeVars, concurrentVars, classifyVars, confVars, thinkVars, asyncVars, backoff, reply, ctx, db, rbac, race, trace>>

\* self._model = BuiltinEmbed._model
EmbedReadModel(t) ==
    /\ embed.threads[t].pc = "read_model"
    /\ embed' = [embed EXCEPT !.threads[t].model = embed.model,
                              !.threads[t].pc = "read_model_name"]
    /\ UNCHANGED <<chatVars, assemblyVars, bridgeVars, concurrentVars, classifyVars, confVars, thinkVars, asyncVars, backoff, reply, ctx, db, rbac, race, trace>>

\* self._model_name = BuiltinEmbed._model_name
EmbedReadModelName(t) ==
    /\ embed.threads[t].pc = "read_model_name"
    /\ embed' = [embed EXCEPT !.threads[t].model_name = embed.model_name,
                              !.threads[t].pc = "read_max_tokens"]
    /\ UNCHANGED <<chatVars, assemblyVars, bridgeVars, concurrentVars, classifyVars, confVars, thinkVars, asyncVars, backoff, reply, ctx, db, rbac, race, trace>>

\* self._max_tokens = BuiltinEmbed._max_tokens
EmbedReadMaxTokens(t) ==
    /\ embed.threads[t].pc = "read_max_tokens"
    /\ embed' = [embed EXCEPT !.threads[t].max_tokens = embed.max_tokens,
                              !.threads[t].pc = "done"]
    /\ UNCHANGED <<chatVars, assemblyVars, bridgeVars, concurrentVars, classifyVars, confVars, thinkVars, asyncVars, backoff, reply, ctx, db, rbac, race, trace>>

NextEmbed ==
    \/ EmbedStart
    \/ \E t \in TopLevelCalls : EmbedCheck(t)
    \/ \E t \in TopLevelCalls : EmbedAcquire(t)
    \/ \E t \in TopLevelCalls : EmbedSetModelName(t)
    \/ \E t \in TopLevelCalls : EmbedSetMaxTokens(t)
    \/ \E t \in TopLevelCalls : EmbedConstruct(t)
    \/ \E t \in TopLevelCalls : EmbedReadModel(t)
    \/ \E t \in TopLevelCalls : EmbedReadModelName(t)
    \/ \E t \in TopLevelCalls : EmbedReadMaxTokens(t)

SpecEmbed == Init /\ [][NextEmbed]_vars


(***************************************************************************)
(* Properties.                                                             *)
(***************************************************************************)
\* The operation is over: it returned or ended its stream ("done"), an
\* exception left it ("raised"), or the assert after the loop failed.
Ended == pc \in {"done", "raised", "assert"}

\* The error text the caller received: returned, or yielded.
ReturnedError == IF op \in PlainOps \cup ToolOps THEN result.text ELSE yielded.error

\* No provider request of the call has succeeded and none failed with a
\* code outside RATE_LIMIT_EXCEEDED / SERVER_ERROR.
OnlyRetryableFailures == ~prov.succeeded /\ ~prov.failedTerminal

\* The provider never failed and every tool-round response carried a tool
\* call.
AlwaysToolCalls ==
    ~prov.failedRetryable /\ ~prov.failedTerminal /\ ~prov.roundWithoutTool

\* C1: in chat, chat_with_tools, chat_streamly_with_tools and their async
\* equivalents, when every provider request failed with a retryable code,
\* the operation has made exactly max_retries + 1 attempts (one request
\* each, a sleep between two attempts) and the error string it returned or
\* yielded carries MAX_RETRIES_EXCEEDED and the last failure's message.
C1_RetryExhaustion ==
    (op \in PlainOps \cup ToolOps \cup ToolStreamOps /\ Ended /\ OnlyRetryableFailures)
        => /\ pc = "done"
           /\ attempt = max_retries
           /\ Len(firstMsgs) = max_retries + 1
           /\ nreq = max_retries + 1
           /\ sleeps = max_retries
           /\ ReturnedError = ErrorString(ERROR_MAX_RETRIES, exc)

\* C1's case: a streaming tool operation with max_retries = 1 whose two
\* attempts failed with retryable errors.
C1_Witness ==
    /\ op = "chat_streamly_with_tools" /\ max_retries = 1
    /\ pc = "done" /\ attempt = 1 /\ nreq = 2
    /\ OnlyRetryableFailures
    /\ classify_error(exc) = ERROR_SERVER
    /\ yielded.error = ErrorString(ERROR_MAX_RETRIES, exc)

\* C2 as stated: with a provider that never fails and answers every
\* tool-enabled request with a tool call, a tool-enabled operation that has
\* ended issued max_rounds + 1 tool-round requests and then one forced
\* final request.
C2_AsStated ==
    (op \in ToolOps \cup ToolStreamOps /\ Ended /\ AlwaysToolCalls)
        => /\ pc = "done"
           /\ round = max_rounds + 1
           /\ nreq = max_rounds + 2
           /\ lastReq.phase = "final"

\* C2, amended: the same, for tool-round responses that carry no content
\* text beside their tool calls in the streaming operations (a streamed
\* round with content ends the operation after that round); and once the
\* operation has ended no request follows.
C2_ToolLoopBound ==
    /\ (op \in ToolOps \cup ToolStreamOps /\ Ended /\ AlwaysToolCalls
            /\ ~prov.roundWithContent)
        => /\ pc = "done"
           /\ attempt = 0
           /\ round = max_rounds + 1
           /\ nreq = max_rounds + 2
           /\ lastReq.phase = "final"
    /\ (op \in ToolOps \cup ToolStreamOps /\ pc \in {"tools", "final"} /\ AlwaysToolCalls
            /\ attempt = 0)
        => nreq =< max_rounds + 1

\* C2's case: max_rounds = 1, two tool rounds and the forced final request.
C2_Witness ==
    /\ op = "chat_streamly_with_tools" /\ max_rounds = 1
    /\ pc = "done" /\ AlwaysToolCalls /\ ~prov.roundWithContent
    /\ round = 2 /\ nreq = 3 /\ lastReq.phase = "final"
    /\ yielded.ints = 1

\* C3: the forced final request of a tool-enabled operation follows the
\* user message about the exceeded rounds and carries neither tools nor
\* tool_choice.
C3_FinalRequestIsPlain ==
    (op \in ToolOps \cup ToolStreamOps /\ lastReq.phase = "final")
        => /\ lastReq.messages # <<>>
           /\ lastReq.messages[Len(lastReq.messages)] = ExceedMsg
           /\ ~lastReq.tools
           /\ ~lastReq.tool_choice

\* C4: in a tool-enabled operation the first request of every attempt
\* carries the messages of the first request of attempt 0.
C4_AttemptsStartFromOriginal ==
    op \in ToolOps \cup ToolStreamOps
        => \A k \in 1..Len(firstMsgs) : firstMsgs[k] = firstMsgs[1]

\* C5: the answer chat_with_tools returns is built only from pieces of the
\* attempt that completed.
C5_AnswerFromCompletingAttempt ==
    (op \in ToolOps /\ pc = "done" /\ result.kind = "answer")
        => \A i \in 1..Len(result.ans) : result.ans[i].a = attempt

\* C6 as stated: in chat and chat_with_tools a failure classified outside
\* RATE_LIMIT_EXCEEDED / SERVER_ERROR ends the call with the text
\* "**ERROR**: <classified code> - <message>".
C6_AsStated ==
    (op \in PlainOps \cup ToolOps /\ exc # NoExc
            /\ classify_error(exc) \notin {ERROR_RATE_LIMIT, ERROR_SERVER})
        => /\ pc = "done"
           /\ result.text = ErrorString(classify_error(exc), exc)

\* C6, amended: such a failure ends the call on the attempt where it
\* occurs, without a sleep for it and without a further request; the text
\* carries the classified code on an attempt before the last one and
\* MAX_RETRIES_EXCEEDED on the last attempt.
C6_TerminalFailure ==
    (op \in PlainOps \cup ToolOps /\ exc # NoExc
            /\ classify_error(exc) \notin {ERROR_RATE_LIMIT, ERROR_SERVER})
        => /\ pc = "done"
           /\ sleeps = attempt
           /\ lastReq.attempt = attempt
           /\ result.kind = "error"
           /\ result.text = ErrorString(IF attempt = max_retries THEN ERROR_MAX_RETRIES
                                        ELSE classify_error(exc), exc)

\* C6's case: chat_with_tools with max_retries = 1 meets an authentication
\* failure on attempt 0.
C6_Witness ==
    /\ op = "chat_with_tools" /\ max_retries = 1
    /\ pc = "done" /\ attempt = 0 /\ sleeps = 0
    /\ classify_error(exc) = ERROR_AUTHENTICATION
    /\ result.text = ErrorString(ERROR_AUTHENTICATION, exc)

\* C7: an operation issues at most (max_retries + 1) * (max_rounds + 2)
\* provider requests and ends by returning (or by ending its stream with) a
\* value.
C7_BoundedAndReturns ==
    /\ nreq =< (max_retries + 1) * (max_rounds + 2)
    /\ Ended => pc = "done"

\* C8: in every operation a retryable failure on an attempt before the
\* last one is followed by a backoff sleep (and then a new attempt).
C8_RetryableIsRetried ==
    (exc # NoExc /\ classify_error(exc) \in retryable_errors /\ attempt < max_retries)
        => pc = "sleep"

\* C9: after a provider failure that ends an operation, the operation has
\* returned or yielded a string that starts with the marker.
C9_ErrorsAreMarkedStrings ==
    (exc # NoExc /\ Ended)
        => /\ pc = "done"
           /\ ReturnedError # <<>>
           /\ Head(ReturnedError) = ERROR_PREFIX

\* C10: when a streaming operation has ended, the consumer received exactly
\* one integer, as the last item, after text only.
C10_TokenCountLast ==
    (op \in PlainStreamOps \cup ToolStreamOps /\ Ended)
        => /\ yielded.ints = 1
           /\ yielded.last = "int"
           /\ ~yielded.late

\* The token count the operation returned or yielded.
ReturnedTokens == IF op \in PlainOps \cup ToolOps THEN result.tokens ELSE yielded.tokens

\* C13: the token count a tool-enabled operation returns or yields last is
\* the sum of the counts of all the provider requests it issued.
C13_TokenCountIsSum ==
    (op \in ToolOps \cup ToolStreamOps /\ pc = "done") => ReturnedTokens = prov.tokens

\* C14: in the streaming tool operations, tool calls are executed only
\* after a round that yielded no text, reasoning included.
C14_NoToolCallAfterText ==
    (op \in ToolStreamOps /\ pc = "tools") => ~local.yielded_text

\* The step processes the tool call at the head of calls.
ToolCallStep == pc = "tools" /\ calls # <<>> /\ calls' = Tail(calls)

\* C11: in every tool-enabled operation, a tool call that fails (the tool
\* raises, or its arguments do not parse) is handled where it happens: no
\* exception reaches the retry handler, nothing is slept, returned or
\* requested by that step; one tool entry with the failure is appended to
\* the working history, the failure trace is added to the visible output,
\* and the loop goes on with the next tool call of the round or, after the
\* last one, with the next round.
C11_ToolFailureIsLocal ==
    [][(ToolCallStep /\ history' # history \o ToolCallEntries(Head(calls)))
        => /\ history' = history \o <<Msg("tool", "Tool call error", Head(calls))>>
           /\ IF op \in ToolOps
              THEN ans' = Append(ans, Piece("tool error trace"))
              ELSE yielded'.last = "str" /\ yielded'.text = "tool error trace"
           /\ exc' = exc /\ prov' = prov
           /\ sleeps' = sleeps /\ attempt' = attempt
           /\ nreq' = nreq /\ result' = result
           /\ yielded'.ints = yielded.ints /\ yielded'.error = yielded.error
           /\ pc' = IF Tail(calls) # <<>> THEN "tools" ELSE "round"
           /\ round' = IF Tail(calls) # <<>> THEN round ELSE round + 1]_vars

\* C11's case: the first of two tool calls of a streamed round has failed
\* and the second is still to be processed.
C11_Witness ==
    /\ op = "chat_streamly_with_tools"
    /\ pc = "tools" /\ Len(calls) = 1
    /\ history[Len(history)] = Msg("tool", "Tool call error", <<round, 1>>)
    /\ yielded.text = "tool error trace"
    /\ exc = NoExc /\ sleeps = 0 /\ nreq = 1

\* C12: in the messages of every request of a tool-enabled operation, each
\* tool-role entry directly follows an assistant entry recording the call
\* with the same tool_call_id.
C12_ToolEntryFollowsItsCall ==
    op \in ToolOps \cup ToolStreamOps
        => \A i \in 1..Len(lastReq.messages) :
              lastReq.messages[i].role = "tool"
                  => /\ i > 1
                     /\ lastReq.messages[i - 1].role = "assistant"
                     /\ lastReq.messages[i - 1].content = "tool_calls"
                     /\ lastReq.messages[i - 1].id = lastReq.messages[i].id

\* What the fragments received so far should assemble to: per index, in
\* order of first arrival, the id and name of the first fragment and the
\* concatenation of the argument fragments (None counting as "").
RECURSIVE ArgumentsAt(_, _)
ArgumentsAt(fs, index) ==
    IF fs = <<>> THEN <<>>
    ELSE (IF Head(fs).index = index /\ ~Head(fs).arguments.none
          THEN Head(fs).arguments.text ELSE <<>>) \o ArgumentsAt(Tail(fs), index)

FirstAt(fs, index) == fs[CHOOSE k \in 1..Len(fs) :
                            /\ fs[k].index = index
                            /\ \A j \in 1..(k - 1) : fs[j].index # index]

AssembledAsSpecified(d, fs) ==
    /\ \A k \in 1..Len(fs) : HasIndex(d, fs[k].index)
    /\ \A k \in 1..Len(d) :
         /\ \E j \in 1..Len(fs) : fs[j].index = d[k].index
         /\ \A j \in 1..Len(d) : d[j].index = d[k].index => j = k
         /\ d[k].id = FirstAt(fs, d[k].index).id
         /\ d[k].name = FirstAt(fs, d[k].index).name
         /\ d[k].arguments = Str(ArgumentsAt(fs, d[k].index))

\* C15: the calls assembled from the fragments of a response, by the
\* streaming loop and by _wrap_toolcall_message, have per index the id and
\* name of the first fragment and the concatenation in arrival order of
\* the argument fragments, each counted once, a missing one counting as "".
C15_FragmentsAssembled ==
    /\ AssembledAsSpecified(final_tool_calls, fragments)
    /\ ~wrapped.raised
    /\ AssembledAsSpecified(wrapped.calls, fragments)

\* The part of C15 that holds: the loop of the streaming tool operations.
C15_StreamingLoopAssembles == AssembledAsSpecified(final_tool_calls, fragments)

\* The synchronous counterpart of an async operation of Base.
SyncOf(o) ==
    CASE o = "async_chat" -> "chat"
      [] o = "async_chat_with_tools" -> "chat_with_tools"
      [] o = "async_chat_streamly_with_tools" -> "chat_streamly_with_tools"
      [] OTHER -> o

\* Whether operation o of class c attaches tools to a request of the phase:
\* every tool-round request has them, a forced final request has them in
\* the operations FinalCarriesTools names, a plain request never.
RequestCarriesTools(c, o, phase) ==
    phase = "round" \/ (phase = "final" /\ FinalCarriesTools(c, o))

\* C16: each request of an async operation of Base is the request its
\* synchronous counterpart issues at the same point of the same run; here,
\* it has tools attached exactly when the counterpart's request has.  (Both
\* have the same control flow, so on the same responses, failures and tool
\* results they issue the requests of the same phases in the same order.)
C16_AsyncIssuesWhatSyncIssues ==
    (cls = "Base" /\ lastReq.phase # "none"
        /\ op \in {"async_chat", "async_chat_with_tools", "async_chat_streamly_with_tools"})
        => lastReq.tools = RequestCarriesTools(cls, SyncOf(op), lastReq.phase)

\* What the worker has handed over so far: the items produced, then the
\* exception object once the except clause has run, then the sentinel once
\* the finally clause has run.
HandedOver ==
    [k \in 1..gen.pos |-> Item(gen.items[k])]
        \o (IF gen.ending = "raise" /\ worker \in {"finally", "finished"}
            THEN <<ExcObject>> ELSE <<>>)
        \o (IF worker = "finished" THEN <<Sentinel>> ELSE <<>>)

\* C17: the queue receives what the worker handed over, in that order; when
\* the worker has finished and the loop has run its callbacks, the queue
\* holds every item of the generator in production order, then the
\* exception object if the generator raised, then the sentinel, once and
\* last.
C17_BridgeDeliversInOrder ==
    /\ queue \o callbacks = HandedOver
    /\ (worker = "finished" /\ callbacks = <<>>)
        => queue = [k \in 1..Len(gen.items) |-> Item(gen.items[k])]
                       \o (IF gen.ending = "raise" THEN <<ExcObject>> ELSE <<>>)
                       \o <<Sentinel>>

\* C17's case: a generator that produced two items and then raised; all
\* callbacks have run.
C17_Witness ==
    /\ worker = "finished" /\ callbacks = <<>>
    /\ gen.items = <<"a", "b">> /\ gen.ending = "raise"
    /\ queue = <<Item("a"), Item("b"), ExcObject, Sentinel>>

C19_CallerHistoryUntouched == pc = "done" => caller = supplied

\* The number of system messages at the head of a message list.
RECURSIVE LeadingSystems(_)
LeadingSystems(msgs) ==
    IF msgs # <<>> /\ Head(msgs).role = "system" THEN 1 + LeadingSystems(Tail(msgs)) ELSE 0

\* C20: when chat has returned, the messages it sent to the provider are
\* the caller's history unchanged if that history began with a system
\* message, with or without a system string; and they begin with at most
\* one system message, also when the call was made on the list of an
\* earlier call.
C20_SystemMessageNotDuplicated ==
    (op = "chat" /\ pc = "done")
        => /\ (supplied # <<>> /\ Head(supplied).role = "system")
                  => lastReq.messages = supplied
           /\ LeadingSystems(lastReq.messages) =< 1

\* C20's case: the second call on the list into which the first call
\* inserted the system message has returned; the list was sent as it was.
C20_Witness ==
    /\ op = "chat" /\ pc = "done" /\ nreq = 2
    /\ supplied = <<NewSystemMsg, UserMsg>>
    /\ lastReq.messages = <<NewSystemMsg, UserMsg>>

\* The caller's history with a system message at position 0 exactly when a
\* system string is given, the history is non-empty and its first entry's
\* role is not system.
Normalized(system, h) ==
    IF system /\ h # <<>> /\ Head(h).role # "system" THEN <<NewSystemMsg>> \o h ELSE h

\* C21: the messages of an operation's first request are the caller's
\* history, with the system message at position 0 exactly in the case
\* above and unchanged otherwise, an empty history included.
C21_SentIsNormalizedHistory ==
    (pc = "done" /\ nreq > 0) => lastReq.messages = Normalized(system_arg, supplied)

\* The text contains the keyword, in whatever case it is written.
Contains(text, kw) == \E k \in 1..Len(text.words) : kw \in Substrings(text.words[k])

ContainsAny(text, kws) == \E kw \in kws : Contains(text, kw)

QuotaKeywords == {"quota", "capacity", "credit", "billing", "balance"}
RateLimitKeywords == {"rate limit", "429", "tpm limit", "too many requests", "requests per minute"}
AuthKeywords == {"auth", "key", "apikey", "401", "forbidden", "permission"}

Taxonomy ==
    {ERROR_RATE_LIMIT, ERROR_AUTHENTICATION, ERROR_INVALID_REQUEST, ERROR_SERVER,
     ERROR_TIMEOUT, ERROR_CONNECTION, ERROR_MODEL, "ERROR_MAX_ROUNDS", ERROR_CONTENT_FILTER,
     ERROR_QUOTA, ERROR_MAX_RETRIES, ERROR_GENERIC}

DeclarationOrder ==
    <<ERROR_QUOTA, ERROR_RATE_LIMIT, ERROR_AUTHENTICATION, ERROR_INVALID_REQUEST, ERROR_SERVER,
      ERROR_TIMEOUT, ERROR_CONNECTION, ERROR_CONTENT_FILTER, ERROR_MODEL>>

\* The text contains a keyword of a group with this code.
GroupHit(text, code) ==
    \E i \in 1..Len(keywords_mapping) :
        keywords_mapping[i].code = code /\ ContainsAny(text, keywords_mapping[i].words)

FirstGroupHit(text) ==
    LET hit == {k \in 1..Len(DeclarationOrder) : GroupHit(text, DeclarationOrder[k])}
    IN  IF hit = {} THEN ERROR_GENERIC
        ELSE DeclarationOrder[CHOOSE k \in hit : \A j \in hit : k =< j]

\* C22: every classification of a text gives the code of the first group, in
\* declaration order, one of whose keywords the text contains in any case,
\* GENERIC_ERROR if there is none; the code is in the taxonomy and the same
\* each time.
C22_FirstMatchingGroupWins ==
    \A k \in 1..Len(codes) :
        /\ codes[k] = FirstGroupHit(error_text)
        /\ codes[k] \in Taxonomy
        /\ codes[k] = codes[1]

\* C22's case: an upper-case text with an authentication keyword before a
\* timeout keyword, classified twice.
C22_Witness ==
    /\ error_text.words = <<"timeout", "forbidden">> /\ error_text.upper
    /\ codes = <<ERROR_AUTHENTICATION, ERROR_AUTHENTICATION>>

\* C23 as stated: a text with a rate-limit keyword is classified
\* RATE_LIMIT_EXCEEDED, whatever else it contains, and that code is retried.
C23_AsStated ==
    (codes # <<>> /\ ContainsAny(error_text, RateLimitKeywords))
        => codes[1] = ERROR_RATE_LIMIT /\ should_retry(codes[1])

\* C23: a text with a rate-limit keyword and no quota keyword is classified
\* RATE_LIMIT_EXCEEDED, whatever else it contains, and that code is retried.
C23_RateLimitUnlessQuota ==
    (codes # <<>> /\ ContainsAny(error_text, RateLimitKeywords)
                  /\ ~ContainsAny(error_text, QuotaKeywords))
        => \A k \in 1..Len(codes) : codes[k] = ERROR_RATE_LIMIT /\ should_retry(codes[k])

\* C23's case: "server ... too many requests", classified.
C23_Witness ==
    /\ error_text.words = <<"server", "too many requests">>
    /\ codes = <<ERROR_RATE_LIMIT>>

\* C24: a text with an authentication keyword and neither a quota nor a
\* rate-limit keyword is classified AUTH_ERROR, whatever keywords of later
\* groups it contains, and that code is not retried.
C24_AuthIsTerminal ==
    (codes # <<>> /\ ContainsAny(error_text, AuthKeywords)
                  /\ ~ContainsAny(error_text, QuotaKeywords \cup RateLimitKeywords))
        => \A k \in 1..Len(codes) : codes[k] = ERROR_AUTHENTICATION /\ ~should_retry(codes[k])

\* C24's case: "503 ... API KEY", classified.
C24_Witness ==
    /\ error_text.words = <<"503", "apikey">> /\ error_text.upper
    /\ codes = <<ERROR_AUTHENTICATION>>

\* C25: the options passed with a request hold only keys of the allow-list,
\* never max_tokens, and none when the model name contains "gpt-5";
\* _clean_conf applied to them changes nothing.
C25_PassedConfIsClean ==
    conf_call.pc = "done"
        => /\ passed \subseteq allowed_conf
           /\ "max_tokens" \notin passed
           /\ conf_call.gpt5 => passed = {}
           /\ clean_conf(conf_call.cls, conf_call.gpt5, passed) = passed

\* The kind of the text-yielding chunk that precedes chunk k in the
\* request: the last earlier chunk that is not a tool-call chunk.
RECURSIVE PrecedingTextKind(_)
PrecedingTextKind(k) ==
    IF k = 1 THEN "none"
    ELSE IF seen[k - 1] # "tool" THEN seen[k - 1]
    ELSE PrecedingTextKind(k - 1)

\* C26: in every streaming loop a reasoning chunk is yielded as its text
\* followed by "</think>", with "<think>" before it exactly when the
\* preceding text-yielding chunk of the request was no reasoning chunk or
\* there was none; a chunk with tool-call fragments yields nothing.
C26_ThinkMarkers ==
    \A k \in 1..Len(seen) :
        /\ seen[k] = "reasoning"
              => out[k] = IF PrecedingTextKind(k) = "reasoning"
                          THEN <<"reasoning", "</think>">>
                          ELSE <<"<think>", "reasoning", "</think>">>
        /\ seen[k] = "tool" => out[k] \in {NothingYielded, <<>>}

\* C27: while a tool of an asynchronous tool operation runs, the event loop
\* is not held by it; and every provider request of the call was issued
\* with no tool in flight and with a tool entry in the history for every
\* tool call processed before it.
C27_ToolOffLoopAndAwaited ==
    /\ tool_thread.state = "running" => ~tool_thread.on_loop /\ atask.pc = "awaiting"
    /\ \A k \in 1..Len(atask.requests) :
          /\ ~atask.requests[k].in_flight
          /\ atask.requests[k].recorded = atask.requests[k].processed

\* C27's case: the operation has ended after a round with two tool calls,
\* one that returned and one that raised, and the other task ran while a
\* tool was running.
C27_Witness ==
    /\ atask.pc = "done" /\ Len(atask.requests) = 2
    /\ atask.history = <<"assistant", "tool", "tool">>
    /\ other_task.during_tool

\* C28: once an asynchronous operation has been cancelled at a request or
\* in the backoff sleep, it has ended with the cancellation: no error
\* string was returned or yielded for it, and no step of the operation
\* follows, so no retry, no end of the sleep and no further request.
C28_CancellationEndsTheOperation ==
    [][(exc' = CancelledError)
          => /\ pc' = "cancelled"
             /\ result'.kind # "error" /\ yielded'.error = <<>>
             /\ exc = CancelledError
                   => nreq' = nreq /\ attempt' = attempt /\ sleeps' = sleeps /\ pc = "cancelled"]_vars

\* C28's case: async_chat cancelled during the backoff sleep that followed
\* the failure of its first request.
C28_Witness ==
    /\ op = "async_chat" /\ pc = "cancelled" /\ exc = CancelledError
    /\ nreq = 1 /\ sleeps = 1 /\ attempt = 0

IsTrimOf(t, s) ==
    /\ t # <<>> => (t[1] # " " /\ t[Len(t)] # " ")
    /\ \E i \in 0..Len(s), j \in 0..Len(s) :
         /\ i + Len(t) + j = Len(s)
         /\ \A k \in 1..Len(s) :
              IF k =< i \/ k > i + Len(t) THEN s[k] = " " ELSE s[k] = t[k - i]

\* The notification that follows an answer.
NoticeFor(text) == IF is_chinese(text) THEN LENGTH_NOTIFICATION_CN ELSE LENGTH_NOTIFICATION_EN

\* C30 as stated: a non-streaming chat whose response has non-empty content
\* returns the content followed by exactly one truncation notice (the
\* English one when the text is not detected as Chinese) on finish_reason
\* "length", the content alone on "stop", and in both cases the
\* provider-reported token count.
C30_AsStated ==
    (reply.pc = "done" /\ reply.content # <<>>) =>
        /\ reply.finish = "length" => reply.text = reply.content \o <<NoticeFor(reply.content)>>
        /\ reply.finish = "stop" => reply.text = reply.content
        /\ reply.finish \in {"length", "stop"} => reply.tokens = reply.usage

\* C30 amended: when the chat issues a plain completion request (every case
\* but the generic adapter with a model name containing "qwq") and the
\* response has non-empty content, the returned text is the content without
\* its leading and trailing whitespace, followed by exactly one truncation
\* notice (the English one when that text is not detected as Chinese) on
\* finish_reason "length" and by nothing on "stop"; in both cases the
\* returned token count is the provider-reported count.
C30_StrippedContentThenNotice ==
    (reply.pc = "done" /\ reply.chunks = <<>> /\ reply.content # <<>>) =>
        \E t \in Texts(MaxContent) :
            /\ IsTrimOf(t, reply.content)
            /\ reply.finish = "length" => reply.text = t \o <<NoticeFor(t)>>
            /\ reply.finish = "stop" => reply.text = t
            /\ reply.tokens = reply.usage

\* A truncated response with whitespace around its content has returned.
C30_Witness ==
    /\ reply.pc = "done" /\ reply.chunks = <<>>
    /\ reply.content = <<" ", "a">> /\ reply.finish = "length" /\ reply.usage = 5
    /\ reply.text = <<"a", LENGTH_NOTIFICATION_EN>> /\ reply.tokens = 5

\* The estimate of a history and its buffered value, as the claim words
\* them: 1 per ASCII character, 2 per other character, 4 per message;
\* times 1.2 rounded down.
RECURSIVE Estimate(_)
Estimate(msgs) ==
    IF msgs = <<>> THEN 0
    ELSE LET m == Head(msgs)
             others == Cardinality({i \in 1..Len(m.chars) : m.chars[i] = "zh"})
         IN  m.pad + (Len(m.chars) - others) + 2 * others + 4 + Estimate(Tail(msgs))

Buffered(msgs) == CHOOSE b \in 0..(2 * Estimate(msgs)) :
                     5 * b =< 6 * Estimate(msgs) /\ 6 * Estimate(msgs) < 5 * (b + 1)

\* C31: _calculate_dynamic_ctx returns the smallest multiple of 8192 that is
\* at least the buffered estimate, and never less than 8192.
C31_SmallestSufficientWindow ==
    ctx.pc = "done" =>
        /\ ctx.ctx_size % 8192 = 0
        /\ ctx.ctx_size >= 8192
        /\ ctx.ctx_size >= Buffered(ctx.history)
        /\ ctx.ctx_size > 8192 => ctx.ctx_size - 8192 < Buffered(ctx.history)

\* The same away from the exact multiples above 8192.
C31_HoldsOffTheMultiples ==
    (ctx.pc = "done" /\ ~(Buffered(ctx.history) > 8192 /\ Buffered(ctx.history) % 8192 = 0)) =>
        /\ ctx.ctx_size % 8192 = 0
        /\ ctx.ctx_size >= 8192
        /\ ctx.ctx_size >= Buffered(ctx.history)
        /\ ctx.ctx_size > 8192 => ctx.ctx_size - 8192 < Buffered(ctx.history)

\* The user has a valid membership row in a valid group.
ValidMemberOf(u, g) ==
    /\ g \in 1..Len(db.groups) /\ db.groups[g].status = "1"
    /\ \E m \in db.members : m.user_id = u /\ m.group_id = g /\ m.status = "1"

\* The tables grant the user permission P on the knowledge base.
TablesGrant(u, kb, P) ==
    \/ \E g \in 1..Len(db.groups) : ValidMemberOf(u, g) /\ db.groups[g].is_admin
    \/ \E g \in 1..Len(db.groups) :
         /\ ValidMemberOf(u, g)
         /\ \E p \in db.perms : /\ p.group_id = g /\ p.kb_id = kb /\ p.status = "1"
                                /\ P \in p.can

HoldsOnAll(u, kbs, P) == \A kb \in kbs : TablesGrant(u, kb, P)

\* C33: an endpoint guarded by require_kb_list_permission(P) runs its
\* handler only if the current user holds P on every knowledge base of the
\* request's kb_ids (or the list is empty, or the user is an admin);
\* otherwise it answers FORBIDDEN and the handler is not run.
C33_HandlerOnlyWithThePermission ==
    (rbac.kind = "guarded" /\ ~HoldsOnAll(rbac.user, rbac.kb_ids, rbac.permission_type)) =>
        (rbac.code = "FORBIDDEN" /\ ~rbac.handler_ran)

\* The same for the read permission.
C33_HoldsForRead ==
    (rbac.kind = "guarded" /\ rbac.permission_type = "read") =>
        (rbac.handler_ran <=> HoldsOnAll(rbac.user, rbac.kb_ids, "read"))

\* The groups init_default_groups creates in the empty tables.
DefaultGroupIds == {1, 2}

\* C34: after init_default_groups, no sequence of create_group,
\* update_group and delete_group requests leaves an admin group or one of
\* the two default system groups soft-deleted.
C34_ProtectedGroupsStayValid ==
    \A g \in 1..Len(db.groups) :
        (db.groups[g].is_admin \/ g \in DefaultGroupIds) => db.groups[g].status = "1"

\* The same for the admin groups alone.
C34_AdminGroupsStayValid ==
    \A g \in 1..Len(db.groups) : db.groups[g].is_admin => db.groups[g].status = "1"

\* The number of system messages in a message list.
RECURSIVE SystemMessages(_)
SystemMessages(msgs) ==
    IF msgs = <<>> THEN 0
    ELSE (IF Head(msgs).role = "system" THEN 1 ELSE 0) + SystemMessages(Tail(msgs))

\* C35: when two threads have called with the same history list and a
\* non-empty system string, and the list held messages and did not start
\* with a system message, the list holds exactly one system message once
\* both have passed their insert, under every interleaving.
C35_OneSystemMessageAfterBoth ==
    (/\ \A t \in TopLevelCalls : race.threads[t].pc = "done" /\ race.threads[t].system
     /\ race.initial # <<>> /\ Head(race.initial).role # "system")
        => SystemMessages(race.history) = 1

\* The same when at most one thread reaches the test before the other's
\* insert is over, that is, when at most one thread inserts.
C35_HoldsWhenOneInserts ==
    (/\ \A t \in TopLevelCalls : race.threads[t].pc = "done" /\ race.threads[t].system
     /\ race.initial # <<>> /\ Head(race.initial).role # "system"
     /\ \E t \in TopLevelCalls : ~race.threads[t].inserts)
        => SystemMessages(race.history) = 1

\* C36: for every max_retries >= 0 and every sequence of provider failures,
\* the statement "assert False" after the retry loop of chat,
\* chat_with_tools, chat_streamly_with_tools and their async equivalents is
\* never reached: the last attempt returns a result or an error value from
\* inside the loop.
C36_AssertNeverReached ==
    /\ pc # "assert"
    /\ HasRetryLoop(cls, op) => attempt =< max_retries

\* C36's case: every attempt of chat_with_tools failed and the last one
\* returned the error value.
C36_Witness ==
    /\ op = "chat_with_tools" /\ pc = "done" /\ max_retries = 1 /\ attempt = 1
    /\ sleeps = 1 /\ result.kind = "error"

\* The tool calls of the rounds so far whose arguments parse, as
\* <<round, position in order of arrival>>.
ParsedCalls ==
    {rk \in (0..MaxRounds) \X (1..2) :
        /\ rk[1] + 1 =< Len(trace.rounds)
        /\ rk[2] =< Len(trace.rounds[rk[1] + 1])
        /\ trace.rounds[rk[1] + 1][rk[2]].outcome # "bad_args"}

CallAt(rk) == trace.rounds[rk[1] + 1][rk[2]]

\* The positions in the events of the given kinds that belong to the call.
EventsOf(rk, kinds) ==
    {j \in 1..Len(trace.events) :
        /\ trace.events[j].kind \in kinds
        /\ trace.events[j].round = rk[1]
        /\ trace.events[j].index = CallAt(rk).index}

\* The indexes of the round's closing traces, in the order they were
\* yielded.
RECURSIVE ClosedIndexes(_, _)
ClosedIndexes(events, rnd) ==
    IF events = <<>> THEN <<>>
    ELSE IF Head(events).round = rnd /\ Head(events).kind \in {"result", "failure"}
         THEN <<Head(events).index>> \o ClosedIndexes(Tail(events), rnd)
         ELSE ClosedIndexes(Tail(events), rnd)

\* C37: in chat_streamly_with_tools (sync and async), every tool call whose
\* arguments parse has its "Begin to call..." trace yielded right before
\* the tool is invoked, and the invocation is followed at once by exactly
\* one closing trace of that call (the result, or the failure text when the
\* tool raised), before anything of the next call or round; the calls are
\* closed in the order their indexes first arrived.
C37_BeginInvokeCloseInArrivalOrder ==
    /\ \A rk \in ParsedCalls :
         LET begins == EventsOf(rk, {"begin"})
             invokes == EventsOf(rk, {"invoke"})
             closes == EventsOf(rk, {"result", "failure"})
             closing == IF CallAt(rk).outcome = "ok" THEN "result" ELSE "failure"
         IN  /\ Cardinality(begins) =< 1 /\ Cardinality(invokes) =< 1
             /\ Cardinality(closes) =< 1
             /\ \A j \in invokes : j - 1 \in begins /\ j + 1 \in closes
             /\ \A j \in closes : j - 1 \in invokes /\ trace.events[j].kind = closing
             /\ (trace.pc = "done" \/ rk[1] < trace.round) =>
                    Cardinality(begins) = 1 /\ Cardinality(closes) = 1
    /\ \A r \in 1..Len(trace.rounds) :
         LET closed == ClosedIndexes(trace.events, r - 1)
         IN  /\ Len(closed) =< Len(trace.rounds[r])
             /\ \A k \in 1..Len(closed) : closed[k] = trace.rounds[r][k].index

\* A finished stream whose first round's calls arrived as index 1 then
\* index 0, the first returning and the second raising.
C37_Witness ==
    /\ trace.pc = "done"
    /\ Len(trace.rounds) >= 1
    /\ trace.rounds[1] = <<[index |-> 1, outcome |-> "ok"], [index |-> 0, outcome |-> "raises"]>>
    /\ Len(trace.events) >= 7
    /\ SubSeq(trace.events, 1, 7) =
         <<Event("request", 0, NoIndex), Event("begin", 0, 1), Event("invoke", 0, 1),
           Event("result", 0, 1), Event("begin", 0, 0), Event("invoke", 0, 0),
           Event("failure", 0, 0)>>

\* Every thread has its BuiltinEmbed instance.
AllConstructed == \A t \in TopLevelCalls : embed.threads[t].pc = "done"

\* C38: when several threads construct BuiltinEmbed while no shared model
\* exists and the TEI profile is enabled, HuggingFaceEmbed is constructed at
\* most once, and every instance refers to that one shared model, with the
\* same model name and max-token setting.
C38_OneSharedModel ==
    embed.tei =>
        /\ embed.constructed =< 1
        /\ AllConstructed =>
              \A t \in TopLevelCalls :
                  /\ embed.threads[t].model = embed.model /\ embed.model # 0
                  /\ embed.threads[t].model_name = embed.model_name
                  /\ embed.threads[t].max_tokens = embed.max_tokens

\* What does hold: the instances agree on the model name and the max-token
\* setting, and each refers to a constructed model.
C38_SameNameAndMaxTokens ==
    (embed.tei /\ AllConstructed) =>
        \A t \in TopLevelCalls :
            /\ embed.threads[t].model \in 1..embed.constructed
            /\ embed.threads[t].model_name = embed.EMBEDDING_MDL
            /\ embed.threads[t].max_tokens = MAX_TOKENS(embed.EMBEDDING_MDL)

=============================================================================
